---- MODULE Spec2Model ----
(***************************************************************************)
(* TemporalConsistencyAnalyzer (backend/utils/temporal_analyzer.py):       *)
(* per-track score / texture / timestamp windows and the temporal          *)
(* spoof analysis computed from them.                                      *)
(*                                                                         *)
(* Units.  Scores and confidences are integers in thousandths (0.95 is     *)
(* 950).  Variances are exact rationals [num, den] in squared thousandths  *)
(* (1e-6).  A standard deviation is carried by its square.  Time is in     *)
(* whole seconds, so history_timeout = 1.0 s is 1.  Arithmetic is exact    *)
(* (rational), where the program computes in IEEE doubles: the two agree   *)
(* except where a statistic is exactly a threshold (the windows 0.65, 0.8, *)
(* 0.95 with variance 0.015 and 0.5, 0.8, 0.8 with mean 0.7, in any order),*)
(* where the rounding of the doubles decides the side.                     *)
(***************************************************************************)
EXTENDS Integers, Sequences, FiniteSets, TLC

VARIABLES
    score_history,      \* dict track_id -> deque of score entries
    texture_history,    \* dict track_id -> deque of texture items
    timestamp_history,  \* dict track_id -> deque of timestamps
    now,                \* the value time.time() returns
    result,             \* the last call: its name, its track and what it returned
    frames,             \* per thread or coroutine: the call in flight, its position and locals
    active_connections, \* ConnectionManager: the set of tracked websockets
    connection_info,    \* ConnectionManager: dict websocket -> client info
    sent,               \* per websocket: the texts sent to the client, in order
    records             \* the attendance records the repository holds

vars == <<score_history, texture_history, timestamp_history, now, result, frames,
          active_connections, connection_info, sent, records>>

\* The state outside the temporal analyzer: the connection manager, the
\* websockets and the attendance repository.
net == <<active_connections, connection_info, sent, records>>

(***************************************************************************)
(* Constructor defaults (__init__).                                        *)
(***************************************************************************)
history_size == 5
score_variance_threshold == 30000
correlation_threshold == 970
micro_movement_threshold == 1
history_timeout == 1

(***************************************************************************)
(* Bounds of the model and the input sets.                                 *)
(***************************************************************************)
\* The clock runs from 0 to MaxTime seconds.
MaxTime == 2

\* Threads that call into the analyzer, and the calls each makes in the
\* statement-level specification.
Threads == {1, 2}

MaxCalls == 4

\* The websockets the server is offered.
WebSockets == {"ws1", "ws2"}

\* The track a thread works on: each thread follows one face.
TrackOf(p) == p

\* A thread with no call in flight, after n calls.
Idle(n) == [pc |-> "idle", done |-> n]

\* Track identifiers the tracker hands out, and those the calls of Spec use.
Tracks == {1, 2}

StoreTracks == {1}

\* Python's None for the optional texture_features argument.
None == << >>

NoResult == [call |-> "none"]

\* A call that returns None.
Returned(call, track_id) == [call |-> call, track_id |-> track_id]

\* An update_history call, which returns None, with the arguments it was given.
ReturnedUpdate(track_id, real_score, fake_score, texture_features) ==
    [call |-> "update_history", track_id |-> track_id,
     args |-> [real_score |-> real_score, fake_score |-> fake_score,
               texture_features |-> texture_features]]

\* (real_score, fake_score) pairs and texture vectors the callers supply.
ScorePairs == {<<950, 50>>, <<500, 400>>}

Textures == {<<1, 2, 3>>}

\* Texture vectors of the texture specification.  The first three have the
\* same variance and the pairwise correlations 13/14 (A, B), 11/14 (A, D)
\* and 1/2 (B, D); ZeroTexture is the all-zero vector extract_texture_features
\* falls back to, and ShortTexture has another length than the rest.
TextureA == <<0, 1, 3>>

TextureB == <<0, 2, 3>>

TextureD == <<1, 0, 3>>

ZeroTexture == <<0, 0, 0>>

ShortTexture == <<0, 1>>

TextureSet == {TextureA, TextureB, TextureD, ZeroTexture, ShortTexture}

\* Real scores of the score-pattern specifications; fake_score = 1 - real_score.
PatternScores == {500, 650, 800, 900, 950}

NoisyScores == {650, 690, 700, 780, 820}

(***************************************************************************)
(* collections.deque(maxlen = history_size)                                *)
(***************************************************************************)
\* A deque created without maxlen.
DequeAppend_unbounded(d, x) == Append(d, x)

\* A full buffer that refuses the new element instead of dropping its oldest.
DequeAppend_keep_oldest(d, x) == IF Len(d) >= history_size THEN d ELSE Append(d, x)

DequeAppend(d, x) ==
    LET s == Append(d, x)
    IN  IF Len(s) > history_size THEN Tail(s) ELSE s

\* d = {k: v} where the code has d[k] = v: the other keys are gone.
DictSet_rebind(d, k, v) == [x \in {k} |-> v]

DictSet(d, k, v) == [x \in DOMAIN d \cup {k} |-> IF x = k THEN v ELSE d[x]]

\* d.clear() where the code has `del d[k]`.
DictDel_all(d, k) == [x \in {} |-> << >>]

DictDel(d, k) == [x \in DOMAIN d \ {k} |-> d[x]]

EmptyDict == [x \in {} |-> << >>]

\* The three dictionaries as one value.
Store == [score |-> score_history, texture |-> texture_history,
          timestamp |-> timestamp_history]

(***************************************************************************)
(* update_history, lines 66-69: buffers for a new track.                   *)
(***************************************************************************)
InitTrack(S, track_id) ==
    IF track_id \notin DOMAIN S.score
    THEN [score     |-> DictSet(S.score, track_id, << >>),
          texture   |-> DictSet(S.texture, track_id, << >>),
          timestamp |-> DictSet(S.timestamp, track_id, << >>)]
    ELSE S

(***************************************************************************)
(* _clean_old_entries: pop from the front while the oldest timestamp is    *)
(* older than history_timeout; each pop of a timestamp also pops the front *)
(* of the score and texture deques when they are non-empty.                *)
(***************************************************************************)
\* `if` where the code has `while`: at most one stale entry is popped.
CleanLoop_once(S, track_id, current_time) ==
    LET timestamps == S.timestamp[track_id]
    IN  IF timestamps # << >> /\ (current_time - Head(timestamps)) > history_timeout
        THEN [timestamp |-> DictSet(S.timestamp, track_id, Tail(timestamps)),
              score     |-> IF track_id \in DOMAIN S.score /\ S.score[track_id] # << >>
                            THEN DictSet(S.score, track_id, Tail(S.score[track_id]))
                            ELSE S.score,
              texture   |-> IF track_id \in DOMAIN S.texture /\ S.texture[track_id] # << >>
                            THEN DictSet(S.texture, track_id, Tail(S.texture[track_id]))
                            ELSE S.texture]
        ELSE S

RECURSIVE CleanLoop(_, _, _)
CleanLoop(S, track_id, current_time) ==
    LET timestamps == S.timestamp[track_id]
    IN  IF timestamps # << >> /\ (current_time - Head(timestamps)) > history_timeout
        THEN CleanLoop(
                [timestamp |-> DictSet(S.timestamp, track_id, Tail(timestamps)),
                 score     |-> IF track_id \in DOMAIN S.score /\ S.score[track_id] # << >>
                               THEN DictSet(S.score, track_id, Tail(S.score[track_id]))
                               ELSE S.score,
                 texture   |-> IF track_id \in DOMAIN S.texture /\ S.texture[track_id] # << >>
                               THEN DictSet(S.texture, track_id, Tail(S.texture[track_id]))
                               ELSE S.texture],
                track_id, current_time)
        ELSE S

\* The eviction leaving the texture deque as it was.
CleanedStore_keep_textures(S, track_id, current_time) ==
    IF track_id \notin DOMAIN S.timestamp
    THEN S
    ELSE [CleanLoop(S, track_id, current_time) EXCEPT !.texture = S.texture]

CleanedStore(S, track_id, current_time) ==
    IF track_id \notin DOMAIN S.timestamp
    THEN S
    ELSE CleanLoop(S, track_id, current_time)

(***************************************************************************)
(* update_history, lines 74-82: append the entry.  Every entry and every   *)
(* texture item carries `at`, the time of the update that supplied it: a   *)
(* tag that names the supplying call and that no operation reads.          *)
(***************************************************************************)
\* Without the `if texture_features is not None` of line 78.
AppendEntry_texture_unconditional(S, track_id, real_score, fake_score, texture_features, current_time) ==
    [score     |-> DictSet(S.score, track_id,
                       DequeAppend(S.score[track_id],
                           [real_score |-> real_score, fake_score |-> fake_score,
                            at |-> current_time])),
     timestamp |-> DictSet(S.timestamp, track_id,
                       DequeAppend(S.timestamp[track_id], current_time)),
     texture   |-> DictSet(S.texture, track_id,
                       DequeAppend(S.texture[track_id],
                           [features |-> texture_features, at |-> current_time]))]

AppendEntry(S, track_id, real_score, fake_score, texture_features, current_time) ==
    [score     |-> DictSet(S.score, track_id,
                       DequeAppend(S.score[track_id],
                           [real_score |-> real_score, fake_score |-> fake_score,
                            at |-> current_time])),
     timestamp |-> DictSet(S.timestamp, track_id,
                       DequeAppend(S.timestamp[track_id], current_time)),
     texture   |-> IF texture_features # None
                   THEN DictSet(S.texture, track_id,
                            DequeAppend(S.texture[track_id],
                                [features |-> texture_features, at |-> current_time]))
                   ELSE S.texture]

UpdatedStore(S, track_id, real_score, fake_score, texture_features, current_time) ==
    AppendEntry(
        CleanedStore(InitTrack(S, track_id), track_id, current_time),
        track_id, real_score, fake_score, texture_features, current_time)

SetStore(S) ==
    /\ score_history' = S.score
    /\ texture_history' = S.texture
    /\ timestamp_history' = S.timestamp

(***************************************************************************)
(* Arithmetic on sequences of integers.  A rational is [num, den] with     *)
(* den >= 0; 0/0 is the NaN that a 0.0 / 0.0 division yields in numpy, and *)
(* like a NaN it compares false with everything.                           *)
(***************************************************************************)
RECURSIVE Sum(_)
Sum(xs) == IF xs = << >> THEN 0 ELSE Head(xs) + Sum(Tail(xs))

Dot(xs, ys) == Sum([i \in 1..Len(xs) |-> xs[i] * ys[i]])

Rat(n, d) == [num |-> n, den |-> d]

NaN == Rat(0, 0)

IsNaN(r) == r.den = 0

\* r > a/b and r < a/b, for b > 0.
RatGT(r, a, b) == r.den > 0 /\ r.num * b > a * r.den

RatLT(r, a, b) == r.den > 0 /\ r.num * b < a * r.den

\* The mean of the squares, the mean not subtracted.
VarNum_raw(xs) == Len(xs) * Dot(xs, xs)

\* The sample variance (ddof = 1) on the same scale: divided by n - 1, not n.
VarNum_sample(xs) ==
    ((Len(xs) * Dot(xs, xs) - Sum(xs) * Sum(xs)) * Len(xs)) \div (Len(xs) - 1)

\* n * n * np.var(xs): the population variance of xs is VarNum(xs) / Len(xs)^2.
VarNum(xs) == Len(xs) * Dot(xs, xs) - Sum(xs) * Sum(xs)

Variance(xs) == Rat(VarNum(xs), Len(xs) * Len(xs))

Mean(xs) == Rat(Sum(xs), Len(xs))

\* np.diff
Diff(xs) == [i \in 1..(Len(xs) - 1) |-> xs[i + 1] - xs[i]]

ISqrt(n) == CHOOSE r \in 0..n : r * r <= n /\ (r + 1) * (r + 1) > n

MaxOf(S) == CHOOSE x \in S : \A y \in S : y <= x

(***************************************************************************)
(* _detect_periodicity.  With d = scores - mean, the normalisation by      *)
(* (std + 1e-6) cancels in autocorr / autocorr[0], which is                *)
(* sum_i d[i] * d[i+k] / sum_i d[i]^2 at lag k; D is n * d.  A constant    *)
(* sequence gives 0.0 / 0.0: numpy warns, raises nothing, and the maximum  *)
(* over the lags is NaN.                                                   *)
(***************************************************************************)
AutoCorrNum(D, k) == Sum([i \in 1..(Len(D) - k) |-> D[i] * D[i + k]])

\* The autocorrelation of the raw scores, the mean not subtracted.
detect_periodicity_uncentred(scores) ==
    IF Len(scores) < 5
    THEN Rat(0, 1)
    ELSE Rat(MaxOf({AutoCorrNum(scores, k) : k \in 1..(Len(scores) - 1)}),
             AutoCorrNum(scores, 0))

detect_periodicity(scores) ==
    IF Len(scores) < 5
    THEN Rat(0, 1)
    ELSE LET n == Len(scores)
             D == [i \in 1..n |-> n * scores[i] - Sum(scores)]
             autocorr0 == AutoCorrNum(D, 0)
         IN  IF n > 2
             THEN IF autocorr0 = 0
                  THEN NaN
                  ELSE Rat(MaxOf({AutoCorrNum(D, k) : k \in 1..(n - 1)}), autocorr0)
             ELSE Rat(0, 1)

(***************************************************************************)
(* np.corrcoef(a, b)[0, 1] inside try / except (lines 182-189), in units   *)
(* of 1e-4.  Vectors of different lengths raise (the pair is skipped); *)
(* a vector of zero variance gives NaN without raising.  The value is      *)
(* exact when Sxx * Syy is a perfect square, as it is for the texture      *)
(* vectors the specifications draw.                                        *)
(***************************************************************************)
Corr(a, b) ==
    IF Len(a) # Len(b)
    THEN [raised |-> TRUE, nan |-> FALSE, value |-> 0]
    ELSE LET n == Len(a)
             Sxy == n * Dot(a, b) - Sum(a) * Sum(b)
             Sxx == VarNum(a)
             Syy == VarNum(b)
         IN  IF Sxx * Syy = 0
             THEN [raised |-> FALSE, nan |-> TRUE, value |-> 0]
             ELSE [raised |-> FALSE, nan |-> FALSE,
                   value |-> (Sxy * 10000) \div ISqrt(Sxx * Syy)]

\* A pair whose computation raised counted as a correlation of 0.
Correlations_zero_on_error(texture_list) ==
    [i \in 1..(Len(texture_list) - 1) |->
        LET c == Corr(texture_list[i].features, texture_list[i + 1].features)
        IN  IF c.raised THEN [raised |-> FALSE, nan |-> FALSE, value |-> 0] ELSE c]

\* The list `correlations`: the pairs whose computation did not raise.
Correlations(texture_list) ==
    LET all == [i \in 1..(Len(texture_list) - 1) |->
                   Corr(texture_list[i].features, texture_list[i + 1].features)]
    IN  SelectSeq(all, LAMBDA c : ~c.raised)

\* np.mean(correlations), for a non-empty list.
MeanCorrelation(correlations) ==
    IF \E i \in 1..Len(correlations) : correlations[i].nan
    THEN NaN
    ELSE Rat(Sum([i \in 1..Len(correlations) |-> correlations[i].value]),
             Len(correlations) * 10000)

(***************************************************************************)
(* Indicators.  The reason is the text of the f-string; the number it      *)
(* formats is the intermediate stored in the analysis record.              *)
(***************************************************************************)
Indicator(type, confidence, reason) ==
    [type |-> type, confidence |-> confidence, reason |-> reason]

Opt(cond, ind) == IF cond THEN <<ind>> ELSE << >>

\* The two branches of the if / elif in the other order.
VarianceSpoof_swapped(real_scores) ==
    LET n == Len(real_scores)
        vn == VarNum(real_scores)
    IN  IF vn < score_variance_threshold * n * n /\ Sum(real_scores) > 700 * n
        THEN <<Indicator("low_variance", 850,
                         "Low score variance, possible static image")>>
        ELSE IF 2 * vn < score_variance_threshold * n * n /\ Sum(real_scores) > 600 * n
        THEN <<Indicator("static_scores", 950,
                         "Score variance too low, suspicious consistency")>>
        ELSE << >>

\* STRATEGY 1, lines 154-174.
\* `if` where the code has `elif`: low_variance is tested after static_scores fired.
VarianceSpoof_no_elif(real_scores) ==
    LET n == Len(real_scores)
        vn == VarNum(real_scores)
    IN  Opt(2 * vn < score_variance_threshold * n * n /\ Sum(real_scores) > 600 * n,
            Indicator("static_scores", 950,
                      "Score variance too low, suspicious consistency"))
        \o Opt(vn < score_variance_threshold * n * n /\ Sum(real_scores) > 700 * n,
               Indicator("low_variance", 850,
                         "Low score variance, possible static image"))

VarianceSpoof(real_scores) ==
    LET n == Len(real_scores)
        vn == VarNum(real_scores)
    IN  IF 2 * vn < score_variance_threshold * n * n /\ Sum(real_scores) > 600 * n
        THEN <<Indicator("static_scores", 950,
                         "Score variance too low, suspicious consistency")>>
        ELSE IF vn < score_variance_threshold * n * n /\ Sum(real_scores) > 700 * n
        THEN <<Indicator("low_variance", 850,
                         "Low score variance, possible static image")>>
        ELSE << >>

VarianceReal(real_scores) ==
    LET n == Len(real_scores)
    IN  Opt(2 * VarNum(real_scores) > 3 * score_variance_threshold * n * n,
            Indicator("natural_variance", 800, "Natural score variation"))

\* STRATEGY 2, lines 177-215.
HasCorrelation(texture_history_) ==
    Len(texture_history_) >= 3 /\ Correlations(texture_history_) # << >>

\* A second `if` where line 202 has `elif`.
TextureSpoof_no_elif(texture_history_) ==
    IF ~HasCorrelation(texture_history_)
    THEN << >>
    ELSE LET m == MeanCorrelation(Correlations(texture_history_))
         IN  Opt(RatGT(m, correlation_threshold, 1000),
                 Indicator("static_texture", 920, "Static texture pattern"))
             \o Opt(RatGT(m, correlation_threshold * 19, 20000),
                    Indicator("high_correlation", 800, "High texture correlation"))

TextureSpoof(texture_history_) ==
    IF ~HasCorrelation(texture_history_)
    THEN << >>
    ELSE LET m == MeanCorrelation(Correlations(texture_history_))
         IN  IF RatGT(m, correlation_threshold, 1000)
             THEN <<Indicator("static_texture", 920, "Static texture pattern")>>
             ELSE IF RatGT(m, correlation_threshold * 19, 20000)
             THEN <<Indicator("high_correlation", 800, "High texture correlation")>>
             ELSE << >>

TextureReal(texture_history_) ==
    IF ~HasCorrelation(texture_history_)
    THEN << >>
    ELSE Opt(RatLT(MeanCorrelation(Correlations(texture_history_)), 900, 1000),
             Indicator("dynamic_texture", 750, "Dynamic texture changes"))

\* np.std of the scores themselves, np.diff left out.
MovementVar_of_scores(real_scores) == Variance(real_scores)

\* STRATEGY 3, lines 218-239.  movement_std^2 = MovementVar = VarNum / m^2.
MovementVar(real_scores) == Variance(Diff(real_scores))

MovementSpoof(real_scores) ==
    IF Len(real_scores) >= 4
    THEN Opt(RatLT(MovementVar(real_scores),
                   micro_movement_threshold * micro_movement_threshold, 1),
             Indicator("no_micro_movement", 880, "No micro-movements detected"))
    ELSE << >>

MovementReal(real_scores) ==
    IF Len(real_scores) >= 4
    THEN Opt(RatGT(MovementVar(real_scores),
                   9 * micro_movement_threshold * micro_movement_threshold, 1),
             Indicator("natural_movement", 700, "Natural micro-movements"))
    ELSE << >>

\* STRATEGY 4, lines 242-252.
PeriodicitySpoof(real_scores) ==
    IF Len(real_scores) >= 5
    THEN Opt(RatGT(detect_periodicity(real_scores), 4, 5),
             Indicator("video_loop", 900,
                       "Periodic pattern detected, likely video replay"))
    ELSE << >>

\* The pool's confidences added up instead of their maximum.
MaxConfidence_sum(indicators) ==
    Sum([i \in 1..Len(indicators) |-> indicators[i].confidence])

\* max([ind['confidence'] for ind in indicators], default=0.0), lines 260-261.
MaxConfidence(indicators) ==
    IF indicators = << >>
    THEN 0
    ELSE MaxOf({indicators[i].confidence : i \in 1..Len(indicators)})

\* The reason taken from the indicator that holds the maximum confidence.
Decide_reason_of_max(spoof_indicators, real_indicators) ==
    LET spoof_confidence == MaxConfidence(spoof_indicators)
        real_confidence == MaxConfidence(real_indicators)
        Holder(inds, c) == inds[CHOOSE i \in 1..Len(inds) : inds[i].confidence = c]
    IN  IF spoof_confidence > real_confidence /\ spoof_confidence > 800
        THEN [verdict |-> "SPOOF", confidence |-> spoof_confidence,
              decision_reason |-> Holder(spoof_indicators, spoof_confidence).reason]
        ELSE IF real_confidence > spoof_confidence /\ real_confidence > 700
        THEN [verdict |-> "REAL", confidence |-> real_confidence,
              decision_reason |-> Holder(real_indicators, real_confidence).reason]
        ELSE [verdict |-> "UNCERTAIN", confidence |-> 500,
              decision_reason |-> "Insufficient evidence for clear decision"]

\* The REAL rule with the SPOOF rule's threshold, 0.80.
Decide_real_above_080(spoof_indicators, real_indicators) ==
    LET spoof_confidence == MaxConfidence(spoof_indicators)
        real_confidence == MaxConfidence(real_indicators)
    IN  IF spoof_confidence > real_confidence /\ spoof_confidence > 800
        THEN [verdict |-> "SPOOF", confidence |-> spoof_confidence,
              decision_reason |-> spoof_indicators[1].reason]
        ELSE IF real_confidence > spoof_confidence /\ real_confidence > 800
        THEN [verdict |-> "REAL", confidence |-> real_confidence,
              decision_reason |-> real_indicators[1].reason]
        ELSE [verdict |-> "UNCERTAIN", confidence |-> 500,
              decision_reason |-> "Insufficient evidence for clear decision"]

\* The final else falling back to the real pool instead of UNCERTAIN.
Decide_no_uncertain(spoof_indicators, real_indicators) ==
    LET spoof_confidence == MaxConfidence(spoof_indicators)
        real_confidence == MaxConfidence(real_indicators)
    IN  IF spoof_confidence > real_confidence /\ spoof_confidence > 800
        THEN [verdict |-> "SPOOF", confidence |-> spoof_confidence,
              decision_reason |-> spoof_indicators[1].reason]
        ELSE IF real_confidence > spoof_confidence /\ real_confidence >= 700
        THEN [verdict |-> "REAL", confidence |-> real_confidence,
              decision_reason |-> real_indicators[1].reason]
        ELSE [verdict |-> "UNCERTAIN", confidence |-> 500,
              decision_reason |-> "Insufficient evidence for clear decision"]

\* Both thresholds met by equality: >= 0.80 for SPOOF, >= 0.70 for REAL.
Decide_thresholds_inclusive(spoof_indicators, real_indicators) ==
    LET spoof_confidence == MaxConfidence(spoof_indicators)
        real_confidence == MaxConfidence(real_indicators)
    IN  IF spoof_confidence > real_confidence /\ spoof_confidence >= 800
        THEN [verdict |-> "SPOOF", confidence |-> spoof_confidence,
              decision_reason |-> spoof_indicators[1].reason]
        ELSE IF real_confidence > spoof_confidence /\ real_confidence >= 700
        THEN [verdict |-> "REAL", confidence |-> real_confidence,
              decision_reason |-> real_indicators[1].reason]
        ELSE [verdict |-> "UNCERTAIN", confidence |-> 500,
              decision_reason |-> "Insufficient evidence for clear decision"]

\* The REAL rule without its comparison against the spoof pool.
Decide_real_unopposed(spoof_indicators, real_indicators) ==
    LET spoof_confidence == MaxConfidence(spoof_indicators)
        real_confidence == MaxConfidence(real_indicators)
    IN  IF spoof_confidence > real_confidence /\ spoof_confidence > 800
        THEN [verdict |-> "SPOOF", confidence |-> spoof_confidence,
              decision_reason |-> spoof_indicators[1].reason]
        ELSE IF real_confidence > 700
        THEN [verdict |-> "REAL", confidence |-> real_confidence,
              decision_reason |-> real_indicators[1].reason]
        ELSE [verdict |-> "UNCERTAIN", confidence |-> 500,
              decision_reason |-> "Insufficient evidence for clear decision"]

\* DECISION LOGIC, lines 258-279.
Decide(spoof_indicators, real_indicators) ==
    LET spoof_confidence == MaxConfidence(spoof_indicators)
        real_confidence == MaxConfidence(real_indicators)
    IN  IF spoof_confidence > real_confidence /\ spoof_confidence > 800
        THEN [verdict |-> "SPOOF", confidence |-> spoof_confidence,
              decision_reason |-> spoof_indicators[1].reason]
        ELSE IF real_confidence > spoof_confidence /\ real_confidence > 700
        THEN [verdict |-> "REAL", confidence |-> real_confidence,
              decision_reason |-> real_indicators[1].reason]
        ELSE [verdict |-> "UNCERTAIN", confidence |-> 500,
              decision_reason |-> "Insufficient evidence for clear decision"]

(***************************************************************************)
(* analyze_temporal_pattern: the returned (verdict, confidence, analysis). *)
(* Line 130 is the minimum-history gate.                                   *)
(***************************************************************************)
\* The gate at 2 entries instead of 3.
InsufficientHistory_two(track_id) ==
    track_id \notin DOMAIN score_history \/ Len(score_history[track_id]) < 2

InsufficientHistory(track_id) ==
    track_id \notin DOMAIN score_history \/ Len(score_history[track_id]) < 3

\* Lines 140-281: the detectors and the decision on the score and texture
\* deques the call has looked up.
Analysis(score_history_, texture_history_) ==
    LET real_scores == [i \in 1..Len(score_history_) |-> score_history_[i].real_score]
        fake_scores == [i \in 1..Len(score_history_) |-> score_history_[i].fake_score]
        spoof_indicators == VarianceSpoof(real_scores) \o TextureSpoof(texture_history_)
                            \o MovementSpoof(real_scores) \o PeriodicitySpoof(real_scores)
        real_indicators == VarianceReal(real_scores) \o TextureReal(texture_history_)
                           \o MovementReal(real_scores)
        decision == Decide(spoof_indicators, real_indicators)
        analysis ==
            [real_variance |-> Variance(real_scores),
             fake_variance |-> Variance(fake_scores),
             mean_real_score |-> Mean(real_scores),
             mean_fake_score |-> Mean(fake_scores),
             spoof_indicators |-> spoof_indicators,
             real_indicators |-> real_indicators,
             decision_reason |-> decision.decision_reason]
            @@ (IF HasCorrelation(texture_history_)
                THEN [texture_correlation |->
                         MeanCorrelation(Correlations(texture_history_))]
                ELSE EmptyDict)
            @@ (IF Len(real_scores) >= 4
                THEN [micro_movement_std |-> MovementVar(real_scores)]
                ELSE EmptyDict)
            @@ (IF Len(real_scores) >= 5
                THEN [periodicity |-> detect_periodicity(real_scores)]
                ELSE EmptyDict)
    IN  [verdict |-> decision.verdict, confidence |-> decision.confidence,
         analysis |-> analysis]

\* The current scores taken as one more entry of the analysed window.
analyze_temporal_pattern_with_current(track_id, current_real_score, current_fake_score) ==
    IF InsufficientHistory(track_id)
    THEN [verdict |-> "UNCERTAIN", confidence |-> 500,
          analysis |-> [reason |-> "insufficient_history"]]
    ELSE Analysis(Append(score_history[track_id],
                         [real_score |-> current_real_score,
                          fake_score |-> current_fake_score]),
                  IF track_id \in DOMAIN texture_history
                  THEN texture_history[track_id] ELSE << >>)

analyze_temporal_pattern(track_id, current_real_score, current_fake_score) ==
    IF InsufficientHistory(track_id)
    THEN [verdict |-> "UNCERTAIN", confidence |-> 500,
          analysis |-> [reason |-> "insufficient_history"]]
    ELSE Analysis(score_history[track_id],
                  IF track_id \in DOMAIN texture_history
                  THEN texture_history[track_id] ELSE << >>)

\* Integer division `//` where line 337 has `/`.
get_track_stability_floor_division(track_id) ==
    IF track_id \notin DOMAIN score_history
    THEN 0
    ELSE LET history_length == Len(score_history[track_id])
         IN  IF history_length >= history_size
             THEN 1000
             ELSE (history_length \div history_size) * 1000

\* get_track_stability: min(1.0, history_length / history_size), in thousandths.
get_track_stability(track_id) ==
    IF track_id \notin DOMAIN score_history
    THEN 0
    ELSE LET history_length == Len(score_history[track_id])
         IN  IF history_length >= history_size
             THEN 1000
             ELSE (history_length * 1000) \div history_size

(***************************************************************************)
(* Operations.                                                             *)
(***************************************************************************)
update_history(track_id, real_score, fake_score, texture_features) ==
    /\ SetStore(UpdatedStore(Store, track_id, real_score, fake_score,
                             texture_features, now))
    /\ result' = ReturnedUpdate(track_id, real_score, fake_score, texture_features)
    /\ UNCHANGED <<now, frames>>

clean_old_entries(track_id) ==
    /\ SetStore(CleanedStore(Store, track_id, now))
    /\ result' = Returned("_clean_old_entries", track_id)
    /\ UNCHANGED <<now, frames>>

clear_track(track_id) ==
    /\ score_history' = DictDel(score_history, track_id)
    /\ texture_history' = DictDel(texture_history, track_id)
    /\ timestamp_history' = DictDel(timestamp_history, track_id)
    /\ result' = Returned("clear_track", track_id)
    /\ UNCHANGED <<now, frames>>

\* Without the score_history.clear() of line 382.
clear_all_keep_scores ==
    /\ score_history' = score_history
    /\ texture_history' = EmptyDict
    /\ timestamp_history' = EmptyDict
    /\ result' = [call |-> "clear_all"]
    /\ UNCHANGED <<now, frames>>

clear_all ==
    /\ score_history' = EmptyDict
    /\ texture_history' = EmptyDict
    /\ timestamp_history' = EmptyDict
    /\ result' = [call |-> "clear_all"]
    /\ UNCHANGED <<now, frames>>

\* time.time() moves on between calls.
Tick ==
    /\ now < MaxTime
    /\ now' = now + 1
    /\ result' = NoResult
    /\ UNCHANGED <<score_history, texture_history, timestamp_history, frames>>

\* An analysis that reads the dictionaries as defaultdicts would: looking a
\* track up creates its buffers.
Analyze_creating(track_id, current_real_score, current_fake_score) ==
    /\ result' = [call |-> "analyze_temporal_pattern", track_id |-> track_id,
                  ret |-> analyze_temporal_pattern(track_id, current_real_score,
                                                   current_fake_score)]
    /\ SetStore(InitTrack(Store, track_id))
    /\ UNCHANGED <<now, frames>>

Analyze(track_id, current_real_score, current_fake_score) ==
    /\ result' = [call |-> "analyze_temporal_pattern", track_id |-> track_id,
                  ret |-> analyze_temporal_pattern(track_id, current_real_score,
                                                   current_fake_score)]
    /\ UNCHANGED <<score_history, texture_history, timestamp_history, now, frames>>

Stability(track_id) ==
    /\ result' = [call |-> "get_track_stability", track_id |-> track_id,
                  ret |-> get_track_stability(track_id)]
    /\ UNCHANGED <<score_history, texture_history, timestamp_history, now, frames>>

Init ==
    /\ score_history = EmptyDict
    /\ texture_history = EmptyDict
    /\ timestamp_history = EmptyDict
    /\ now = 0
    /\ result = NoResult
    /\ frames = [p \in Threads |-> Idle(0)]
    /\ active_connections = {}
    /\ connection_info = EmptyDict
    /\ sent = [websocket \in WebSockets |-> << >>]
    /\ records = << >>

(***************************************************************************)
(* The store under every order of calls and clock advances: updates with   *)
(* and without a texture, eviction passes, clears and analyses.            *)
(***************************************************************************)
Next ==
    \/ \E t \in StoreTracks, p \in ScorePairs, x \in Textures \cup {None} :
          update_history(t, p[1], p[2], x) /\ UNCHANGED net
    \/ \E t \in StoreTracks : clean_old_entries(t) /\ UNCHANGED net
    \/ \E t \in StoreTracks : clear_track(t) /\ UNCHANGED net
    \/ clear_all /\ UNCHANGED net
    \/ \E t \in StoreTracks, p \in ScorePairs : Analyze(t, p[1], p[2]) /\ UNCHANGED net
    \/ Tick /\ UNCHANGED net

Spec == Init /\ [][Next]_vars

(***************************************************************************)
(* One track fed within the timeout window (the clock stands still), no    *)
(* textures: every window of up to history_size scores over a set.         *)
(***************************************************************************)
NextScores(scores) ==
    \/ \E r \in scores : update_history(1, r, 1000 - r, None) /\ UNCHANGED net
    \/ \E r \in scores : Analyze(1, r, 1000 - r) /\ UNCHANGED net
    \/ Stability(1) /\ UNCHANGED net
    \/ clear_track(1) /\ UNCHANGED net

NextPattern == NextScores(PatternScores)

NextNoisy == NextScores(NoisyScores)

SpecPattern == Init /\ [][NextPattern]_vars

SpecNoisy == Init /\ [][NextNoisy]_vars

(***************************************************************************)
(* Two tracks side by side, fed with one score pair within the timeout (the *)
(* clock stands still): what a call on one track does to the other.        *)
(***************************************************************************)
TrackPair == <<950, 50>>

NextTracks ==
    \/ \E t \in Tracks, x \in Textures \cup {None} :
          update_history(t, TrackPair[1], TrackPair[2], x) /\ UNCHANGED net
    \/ \E t \in Tracks : clear_track(t) /\ UNCHANGED net
    \/ clear_all /\ UNCHANGED net
    \/ \E t \in Tracks : Analyze(t, TrackPair[1], TrackPair[2]) /\ UNCHANGED net
    \/ \E t \in Tracks : Stability(t) /\ UNCHANGED net

SpecTracks == Init /\ [][NextTracks]_vars

(***************************************************************************)
(* One track fed within the timeout with one score pair and every sequence *)
(* of texture vectors, some updates without a texture.                     *)
(***************************************************************************)
NextTexture ==
    \/ \E x \in TextureSet \cup {None} :
          update_history(1, TrackPair[1], TrackPair[2], x) /\ UNCHANGED net
    \/ Analyze(1, TrackPair[1], TrackPair[2]) /\ UNCHANGED net
    \/ clear_track(1) /\ UNCHANGED net

SpecTexture == Init /\ [][NextTexture]_vars

(***************************************************************************)
(* Properties.                                                             *)
(***************************************************************************)
Analysed == result.call = "analyze_temporal_pattern"

Updated == result.call = "update_history"

\* C1: for a track that is unknown or whose score window holds fewer than 3
\* entries, analyze_temporal_pattern returns UNCERTAIN with confidence 0.5 and
\* an analysis holding nothing but the reason "insufficient_history": no
\* detector has run and no indicator list exists.
C1_InsufficientHistory ==
    Analysed =>
        LET t == result.track_id
        IN  (t \notin DOMAIN score_history \/ Len(score_history[t]) < 3) =>
                /\ result.ret.verdict = "UNCERTAIN"
                /\ result.ret.confidence = 500
                /\ result.ret.analysis = [reason |-> "insufficient_history"]

C1_Witness ==
    /\ Analysed
    /\ result.track_id \in DOMAIN score_history
    /\ Len(score_history[result.track_id]) = 2
    /\ result.ret.verdict = "UNCERTAIN"

\* C2: after an update_history call at time now, every timestamp left in the
\* updated track's window is at most history_timeout old, and in every state
\* no buffer of any track is longer than history_size.
C2_EvictionInvariant ==
    /\ Updated =>
          LET ts == timestamp_history[result.track_id]
          IN  \A i \in 1..Len(ts) : now - ts[i] <= history_timeout
    /\ \A t \in DOMAIN timestamp_history : Len(timestamp_history[t]) <= history_size
    /\ \A t \in DOMAIN score_history : Len(score_history[t]) <= history_size
    /\ \A t \in DOMAIN texture_history : Len(texture_history[t]) <= history_size

\* An update at time 2 has left a full window whose oldest entry is exactly
\* history_timeout old.
C2_Witness ==
    /\ Updated
    /\ now = 2
    /\ Len(timestamp_history[result.track_id]) = history_size
    /\ Head(timestamp_history[result.track_id]) = now - history_timeout

\* C3: in every state, every track has its three buffers, with
\* len(scores) = len(timestamps) and len(textures) <= len(scores) <= history_size.
C3_LengthInvariant ==
    /\ DOMAIN timestamp_history = DOMAIN score_history
    /\ DOMAIN texture_history = DOMAIN score_history
    /\ \A t \in DOMAIN score_history :
          /\ Len(score_history[t]) = Len(timestamp_history[t])
          /\ Len(texture_history[t]) <= Len(score_history[t])
          /\ Len(score_history[t]) <= history_size

\* A window at capacity after a timeout eviction, with textures supplied on
\* some of its updates only.
C3_Witness ==
    /\ Updated
    /\ now = 2
    /\ Len(score_history[result.track_id]) = history_size
    /\ Head(timestamp_history[result.track_id]) = 1
    /\ Len(texture_history[result.track_id]) \in 1..(history_size - 1)

(***************************************************************************)
(* The aggregator's pools as the caller sees them in the returned analysis.*)
(***************************************************************************)
FullAnalysis == Analysed /\ "spoof_indicators" \in DOMAIN result.ret.analysis

SpoofPool == result.ret.analysis.spoof_indicators

RealPool == result.ret.analysis.real_indicators

PoolConfidences(pool) == {pool[i].confidence : i \in 1..Len(pool)}

PoolTypes(pool) == {pool[i].type : i \in 1..Len(pool)}

\* max(confidence) over a pool, 0.0 if it is empty.
PoolMax(pool) ==
    CHOOSE m \in PoolConfidences(pool) \cup {0} :
        \A c \in PoolConfidences(pool) \cup {0} : c <= m

\* Detector evaluation order: variance, texture, micro-movement, periodicity.
DetectorRank(type) ==
    CASE type \in {"static_scores", "low_variance", "natural_variance"} -> 1
      [] type \in {"static_texture", "high_correlation", "dynamic_texture"} -> 2
      [] type \in {"no_micro_movement", "natural_movement"} -> 3
      [] type = "video_loop" -> 4

\* The indicator of a non-empty pool whose detector comes first.
FirstProduced(pool) ==
    pool[CHOOSE i \in 1..Len(pool) :
            \A j \in 1..Len(pool) : DetectorRank(pool[i].type) <= DetectorRank(pool[j].type)]

SpoofRule == PoolMax(SpoofPool) > PoolMax(RealPool) /\ PoolMax(SpoofPool) > 800

RealRule == PoolMax(RealPool) > PoolMax(SpoofPool) /\ PoolMax(RealPool) > 700

WindowReal(t) == [i \in 1..Len(score_history[t]) |-> score_history[t][i].real_score]

WindowFake(t) == [i \in 1..Len(score_history[t]) |-> score_history[t][i].fake_score]

\* C4: when the maximum spoof confidence exceeds both the maximum real
\* confidence and 0.80, the verdict is SPOOF with that maximum as confidence,
\* and the reason is the rationale of the spoof indicator whose detector comes
\* first in the order variance, texture, micro-movement, periodicity.
C4_SpoofRule ==
    (FullAnalysis /\ SpoofRule) =>
        /\ result.ret.verdict = "SPOOF"
        /\ result.ret.confidence = PoolMax(SpoofPool)
        /\ result.ret.analysis.decision_reason = FirstProduced(SpoofPool).reason

\* A SPOOF verdict whose reason comes from an indicator that does not hold the
\* maximum confidence (low_variance 0.85 before no_micro_movement 0.88).
C4_Witness ==
    /\ FullAnalysis
    /\ result.ret.verdict = "SPOOF"
    /\ Len(SpoofPool) = 2
    /\ FirstProduced(SpoofPool).confidence < result.ret.confidence

\* C5: when the SPOOF rule does not apply and the maximum real confidence
\* exceeds both the maximum spoof confidence and 0.70, the verdict is REAL with
\* that maximum as confidence and the first real indicator's rationale as reason.
C5_RealRule ==
    (FullAnalysis /\ ~SpoofRule /\ RealRule) =>
        /\ result.ret.verdict = "REAL"
        /\ result.ret.confidence = PoolMax(RealPool)
        /\ result.ret.analysis.decision_reason = FirstProduced(RealPool).reason

C5_Witness ==
    /\ FullAnalysis
    /\ result.ret.verdict = "REAL"
    /\ result.ret.confidence = 800
    /\ Len(RealPool) = 2

\* C6 as stated: a window of at least 3 entries that satisfies neither rule
\* gives UNCERTAIN, confidence 0.5, reason "insufficient evidence for clear
\* decision".
C6_UncertainAsStated ==
    (FullAnalysis /\ ~SpoofRule /\ ~RealRule) =>
        /\ result.ret.verdict = "UNCERTAIN"
        /\ result.ret.confidence = 500
        /\ result.ret.analysis.decision_reason = "insufficient evidence for clear decision"

\* C6 amended: as above, the reason being the string the code returns,
\* "Insufficient evidence for clear decision".
C6_Uncertain ==
    (FullAnalysis /\ ~SpoofRule /\ ~RealRule) =>
        /\ result.ret.verdict = "UNCERTAIN"
        /\ result.ret.confidence = 500
        /\ result.ret.analysis.decision_reason = "Insufficient evidence for clear decision"

\* Neither rule applies although an indicator fired: the only one is
\* natural_movement, whose confidence 0.70 is not above the REAL threshold.
C6_Witness ==
    /\ FullAnalysis
    /\ Len(score_history[result.track_id]) >= 3
    /\ SpoofPool = << >>
    /\ PoolTypes(RealPool) = {"natural_movement"}
    /\ result.ret.verdict = "UNCERTAIN"

\* C7: after five updates with real_score 0.95 and fake_score 0.05 the analysis
\* reports real-score variance 0.0, static_scores among the spoof indicators,
\* and verdict SPOOF with confidence 0.95.
ConstantWindow(t) ==
    /\ t \in DOMAIN score_history
    /\ WindowReal(t) = <<950, 950, 950, 950, 950>>
    /\ WindowFake(t) = <<50, 50, 50, 50, 50>>

C7_ConstantScores ==
    (Analysed /\ ConstantWindow(result.track_id)) =>
        /\ result.ret.analysis.real_variance.num = 0
        /\ result.ret.analysis.real_variance.den > 0
        /\ "static_scores" \in PoolTypes(SpoofPool)
        /\ result.ret.verdict = "SPOOF"
        /\ result.ret.confidence = 950

C7_Witness ==
    /\ Analysed
    /\ ConstantWindow(result.track_id)
    /\ result.ret.verdict = "SPOOF"

\* C8 as stated: after updates with real scores 0.70, 0.78, 0.65, 0.82, 0.69 and
\* no textures, the analysis produces natural_variance and, no spoof indicator
\* being stronger, returns REAL.
NoisyWindow(t) ==
    /\ t \in DOMAIN score_history
    /\ WindowReal(t) = <<700, 780, 650, 820, 690>>
    /\ texture_history[t] = << >>

C8_NoisyAsStated ==
    (Analysed /\ NoisyWindow(result.track_id)) =>
        /\ "natural_variance" \in PoolTypes(RealPool)
        /\ (PoolMax(SpoofPool) <= PoolMax(RealPool) => result.ret.verdict = "REAL")

\* C8 amended: for these scores the population variance is 0.003896, below
\* variance_threshold * 0.5 with mean 0.728 > 0.6: natural_variance is not
\* produced, static_scores is, the only real indicator is natural_movement,
\* and the verdict is SPOOF with confidence 0.95.
C8_Noisy ==
    (Analysed /\ NoisyWindow(result.track_id)) =>
        /\ result.ret.analysis.real_variance = [num |-> 3896 * 25, den |-> 25]
        /\ "natural_variance" \notin PoolTypes(RealPool)
        /\ PoolTypes(RealPool) = {"natural_movement"}
        /\ PoolTypes(SpoofPool) = {"static_scores"}
        /\ result.ret.verdict = "SPOOF"
        /\ result.ret.confidence = 950

C8_Witness ==
    /\ Analysed
    /\ NoisyWindow(result.track_id)
    /\ result.ret.verdict = "SPOOF"

\* C9 as stated: after updates with real scores 0.5, 0.9, 0.5, 0.9, 0.5 the
\* periodicity score is above 0.8 and video_loop is among the spoof indicators.
PeriodicWindow(t) ==
    /\ t \in DOMAIN score_history
    /\ WindowReal(t) = <<500, 900, 500, 900, 500>>

C9_PeriodicAsStated ==
    (Analysed /\ PeriodicWindow(result.track_id)) =>
        /\ RatGT(result.ret.analysis.periodicity, 4, 5)
        /\ "video_loop" \in PoolTypes(SpoofPool)

\* C10 as stated: the timeout eviction of an update (or of a clean) removes
\* from the three buffers what the same updates recorded: each score removed
\* was recorded with the timestamp removed at its position, and each texture
\* removed was supplied by an update whose timestamp is removed, so a texture
\* supplied with an entry still within the timeout stays.
C10_LockstepAsStated ==
    [][(/\ result'.call \in {"update_history", "_clean_old_entries"}
        /\ result'.track_id \in DOMAIN timestamp_history)
       => LET t == result'.track_id
              cleaned == CleanedStore(Store, t, now)
              k == Len(timestamp_history[t]) - Len(cleaned.timestamp[t])
              kx == Len(texture_history[t]) - Len(cleaned.texture[t])
          IN  /\ \A i \in 1..k : score_history[t][i].at = timestamp_history[t][i]
              /\ \A i \in 1..kx :
                    /\ \E j \in 1..k : timestamp_history[t][j] = texture_history[t][i].at
                    /\ now - texture_history[t][i].at > history_timeout]_vars

(***************************************************************************)
(* Sequences as the caller of the buffers sees them.                       *)
(***************************************************************************)
Last(s) == s[Len(s)]

Front(s) == SubSeq(s, 1, Len(s) - 1)

IsSuffix(a, b) == Len(a) <= Len(b) /\ a = SubSeq(b, Len(b) - Len(a) + 1, Len(b))

\* The buffer a dictionary holds for a track, empty for an unknown track.
BufferOf(d, t) == IF t \in DOMAIN d THEN d[t] ELSE << >>

\* C11: every update_history call, on a known or on an unseen track, leaves
\* the track with its three buffers; the last score entry is the supplied
\* (real_score, fake_score), the last timestamp is the time of the call, and
\* the texture buffer ends with the supplied texture when one was given and
\* has gained nothing when none was given.
C11_UpdatePostcondition ==
    [][result'.call = "update_history"
       => LET t == result'.track_id
              a == result'.args
              before == BufferOf(texture_history, t)
          IN  /\ t \in DOMAIN score_history'
              /\ t \in DOMAIN texture_history'
              /\ t \in DOMAIN timestamp_history'
              /\ score_history'[t] # << >>
              /\ Last(score_history'[t]).real_score = a.real_score
              /\ Last(score_history'[t]).fake_score = a.fake_score
              /\ Last(score_history'[t]).at = now'
              /\ timestamp_history'[t] # << >>
              /\ Last(timestamp_history'[t]) = now'
              /\ IF a.texture_features # None
                 THEN /\ texture_history'[t] # << >>
                      /\ Last(texture_history'[t])
                            = [features |-> a.texture_features, at |-> now']
                      /\ IsSuffix(Front(texture_history'[t]), before)
                 ELSE IsSuffix(texture_history'[t], before)]_vars

\* An update with a texture on a window at capacity, after a timeout eviction.
C11_Witness ==
    /\ Updated
    /\ result.args.texture_features # None
    /\ now = 2
    /\ Len(score_history[result.track_id]) = history_size
    /\ Head(timestamp_history[result.track_id]) = 1
    /\ Last(texture_history[result.track_id]).at = now

\* The last n elements of s.
KeepLast(s, n) == IF Len(s) > n THEN SubSeq(s, Len(s) - n + 1, Len(s)) ELSE s

\* C12: with every update within the timeout, each update turns the score
\* window into the last history_size elements of the old window followed by
\* the new observation, so after k updates the window is the most recent
\* min(k, history_size) observations in insertion order; the timestamps are
\* aligned index by index with the scores, and an update of a full window
\* drops exactly its oldest entry.
C12_Fifo ==
    [][result'.call = "update_history"
       => LET t == result'.track_id
              a == result'.args
              old == BufferOf(score_history, t)
              e == [real_score |-> a.real_score, fake_score |-> a.fake_score,
                    at |-> now']
          IN  /\ score_history'[t] = KeepLast(Append(old, e), history_size)
              /\ timestamp_history'[t]
                    = KeepLast(Append(BufferOf(timestamp_history, t), now'),
                               history_size)
              /\ Len(timestamp_history'[t]) = Len(score_history'[t])
              /\ \A i \in 1..Len(score_history'[t]) :
                    score_history'[t][i].at = timestamp_history'[t][i]
              /\ Len(old) = history_size
                    => score_history'[t] = Append(Tail(old), e)]_vars

\* A full window of five different observations whose first entry is not
\* the smallest score: the window has turned over.
C12_Witness ==
    /\ Updated
    /\ result.track_id \in DOMAIN score_history
    /\ WindowReal(result.track_id) = <<650, 800, 900, 950, 500>>
    /\ result.args.real_score = 500

StabilityAsked == result.call = "get_track_stability"

\* C13: get_track_stability(id) is min(1.0, window_length / history_size):
\* 0.0 for an unknown track, 1.0 for a window of history_size entries, the
\* exact fraction below that (0.4 for 2 entries of 5), and always in [0, 1].
C13_Stability ==
    StabilityAsked =>
        LET t == result.track_id
            n == Len(BufferOf(score_history, t))
        IN  /\ result.ret \in 0..1000
            /\ t \notin DOMAIN score_history => result.ret = 0
            /\ n >= history_size => result.ret = 1000
            /\ n < history_size => result.ret * history_size = n * 1000
            /\ (n = 2 /\ history_size = 5) => result.ret = 400

C13_Witness ==
    /\ StabilityAsked
    /\ result.track_id \in DOMAIN score_history
    /\ Len(score_history[result.track_id]) = 2
    /\ result.ret = 400

(***************************************************************************)
(* What a step does to one track, and to the whole store.                  *)
(***************************************************************************)
Known(t) ==
    t \in DOMAIN score_history \cup DOMAIN texture_history \cup DOMAIN timestamp_history

TrackUnchanged(u) ==
    /\ (u \in DOMAIN score_history') = (u \in DOMAIN score_history)
    /\ (u \in DOMAIN texture_history') = (u \in DOMAIN texture_history)
    /\ (u \in DOMAIN timestamp_history') = (u \in DOMAIN timestamp_history)
    /\ BufferOf(score_history', u) = BufferOf(score_history, u)
    /\ BufferOf(texture_history', u) = BufferOf(texture_history, u)
    /\ BufferOf(timestamp_history', u) = BufferOf(timestamp_history, u)

\* t is unknown after the step.
UnknownAfter(t) ==
    /\ t \notin DOMAIN score_history'
    /\ t \notin DOMAIN texture_history'
    /\ t \notin DOMAIN timestamp_history'

StoreUnchanged == UNCHANGED <<score_history, texture_history, timestamp_history>>

\* C14: clear_track(id) removes the three buffers of id and leaves the
\* buffers of every other track as they were; on a track that is unknown,
\* because it was never seen or was just cleared, it changes nothing.
C14_ClearTrackLocal ==
    [][result'.call = "clear_track"
       => LET t == result'.track_id
          IN  /\ \A u \in Tracks \ {t} : TrackUnchanged(u)
              /\ UnknownAfter(t)
              /\ ~Known(t) => StoreUnchanged]_vars

\* Track 1 has been cleared while track 2 holds a full window with textures.
C14_Witness ==
    /\ result = Returned("clear_track", 1)
    /\ ~Known(1)
    /\ 2 \in DOMAIN score_history
    /\ Len(score_history[2]) = history_size
    /\ texture_history[2] # << >>

\* C15: analyze_temporal_pattern and get_track_stability change no buffer of
\* any track and create none for an unseen track, so the same call repeated
\* with no update in between returns the same result.
C15_ReadOnly ==
    [][result'.call \in {"analyze_temporal_pattern", "get_track_stability"}
       => /\ StoreUnchanged
          /\ \A u \in Tracks : TrackUnchanged(u)
          /\ ~Known(result'.track_id) => UnknownAfter(result'.track_id)
          /\ (result.call = result'.call /\ result.track_id = result'.track_id)
                => result'.ret = result.ret]_vars

\* An unseen track has been analysed and is still unknown, next to a known one.
C15_Witness ==
    /\ Analysed
    /\ ~Known(result.track_id)
    /\ \E u \in Tracks : Known(u) /\ Len(score_history[u]) >= 3

\* The entries a step removed from the front of a buffer.
RemovedFront(before, after) == SubSeq(before, 1, Len(before) - Len(after))

\* C16 as stated: a clean pass on track_id at time now never appends and
\* never creates a track, changes nothing for an unknown track, leaves every
\* other track unchanged, and removes from the timestamp, score and texture
\* buffers only entries recorded more than history_timeout before now, so an
\* entry recorded exactly history_timeout ago stays.
C16_CleanAsStated ==
    [][result'.call = "_clean_old_entries"
       => LET t == result'.track_id
              ts == BufferOf(timestamp_history, t)
              sc == BufferOf(score_history, t)
              tx == BufferOf(texture_history, t)
              ts_ == BufferOf(timestamp_history', t)
              sc_ == BufferOf(score_history', t)
              tx_ == BufferOf(texture_history', t)
          IN  /\ \A u \in Tracks \ {t} : TrackUnchanged(u)
              /\ ~Known(t) => StoreUnchanged
              /\ (t \in DOMAIN score_history') = (t \in DOMAIN score_history)
              /\ (t \in DOMAIN texture_history') = (t \in DOMAIN texture_history)
              /\ (t \in DOMAIN timestamp_history') = (t \in DOMAIN timestamp_history)
              /\ IsSuffix(ts_, ts) /\ IsSuffix(sc_, sc) /\ IsSuffix(tx_, tx)
              /\ \A i \in 1..Len(RemovedFront(ts, ts_)) :
                    now' - ts[i] > history_timeout
              /\ \A i \in 1..Len(RemovedFront(sc, sc_)) :
                    now' - sc[i].at > history_timeout
              /\ \A i \in 1..Len(RemovedFront(tx, tx_)) :
                    now' - tx[i].at > history_timeout]_vars

\* What analyze_temporal_pattern returns for a track without history.
InsufficientAnswer ==
    [verdict |-> "UNCERTAIN", confidence |-> 500,
     analysis |-> [reason |-> "insufficient_history"]]

\* The track is unknown to the readers after the step.
ReadsUnknownAfter(t) ==
    /\ get_track_stability(t)' = 0
    /\ analyze_temporal_pattern(t, TrackPair[1], TrackPair[2])' = InsufficientAnswer

\* C17: after clear_all every track, and after clear_track(id) that track,
\* is in none of the dictionaries, get_track_stability returns 0.0 for it and
\* analyze_temporal_pattern returns UNCERTAIN / "insufficient_history"; an
\* update of a track that is unknown leaves a window of exactly the one new
\* entry (one score, one timestamp, and the texture if one was supplied).
C17_NoResidue ==
    [][/\ result'.call = "clear_all"
          => \A t \in Tracks : UnknownAfter(t) /\ ReadsUnknownAfter(t)
       /\ \A t \in Tracks :
             (result'.call = "clear_track" /\ result'.track_id = t)
                => UnknownAfter(t) /\ ReadsUnknownAfter(t)
       /\ (result'.call = "update_history" /\ ~Known(result'.track_id))
          => LET t == result'.track_id
                 a == result'.args
             IN  /\ score_history'[t]
                      = <<[real_score |-> a.real_score,
                           fake_score |-> a.fake_score, at |-> now']>>
                 /\ timestamp_history'[t] = <<now'>>
                 /\ texture_history'[t]
                      = IF a.texture_features # None
                        THEN <<[features |-> a.texture_features, at |-> now']>>
                        ELSE << >>]_vars

\* Track 2 has been cleared next to a track 1 with a full window: the
\* readers see track 2 as unknown and track 1 as before.
C17_Witness ==
    /\ result = Returned("clear_track", 2)
    /\ ~Known(2)
    /\ get_track_stability(2) = 0
    /\ analyze_temporal_pattern(2, TrackPair[1], TrackPair[2]) = InsufficientAnswer
    /\ Known(1)
    /\ get_track_stability(1) = 1000

(***************************************************************************)
(* The population variance by its definition, the mean of the squared      *)
(* deviations from the mean: variance(xs) = SqDev(xs) / n^3, in 1e-6.      *)
(***************************************************************************)
SqDev(xs) ==
    Sum([i \in 1..Len(xs) |-> (Len(xs) * xs[i] - Sum(xs)) * (Len(xs) * xs[i] - Sum(xs))])

Cube(n) == n * n * n

\* Every indicator of the type in the pool carries the confidence.
ConfidenceOf(pool, type, confidence) ==
    \A i \in 1..Len(pool) : pool[i].type = type => pool[i].confidence = confidence

TextureWindow(t) ==
    [i \in 1..Len(BufferOf(texture_history, t)) |-> texture_history[t][i].features]

Centred(a) == [i \in 1..Len(a) |-> Len(a) * a[i] - Sum(a)]

Computable(a, b) == Len(a) = Len(b) /\ SqDev(a) > 0 /\ SqDev(b) > 0

Pearson(a, b) == (Dot(Centred(a), Centred(b)) * 10000) \div ISqrt(SqDev(a) * SqDev(b))

TextureTypes == {"static_texture", "high_correlation", "dynamic_texture"}

NoTextureIndicator ==
    /\ PoolTypes(SpoofPool) \cap TextureTypes = {}
    /\ PoolTypes(RealPool) \cap TextureTypes = {}
    /\ "texture_correlation" \notin DOMAIN result.ret.analysis

\* The texture indicators in the pools are those the mean correlation m gives.
TextureIndicatorsFor(m) ==
    LET static == RatGT(m, correlation_threshold, 1000)
    IN  /\ ("static_texture" \in PoolTypes(SpoofPool)) = static
        /\ ("high_correlation" \in PoolTypes(SpoofPool))
              = (~static /\ RatGT(m, 1843, 2000))
        /\ ("dynamic_texture" \in PoolTypes(RealPool)) = RatLT(m, 900, 1000)
        /\ ConfidenceOf(SpoofPool, "static_texture", 920)
        /\ ConfidenceOf(SpoofPool, "high_correlation", 800)
        /\ ConfidenceOf(RealPool, "dynamic_texture", 750)

ComputablePairs(x) ==
    LET all == [i \in 1..(Len(x) - 1) |->
                   IF Computable(x[i], x[i + 1])
                   THEN [ok |-> TRUE, r |-> Pearson(x[i], x[i + 1])]
                   ELSE [ok |-> FALSE, r |-> 0]]
    IN  SelectSeq(all, LAMBDA c : c.ok)

\* C20 as stated: in a window of at least 3 texture vectors, a consecutive
\* pair whose correlation cannot be computed (vectors of different lengths,
\* or a vector of zero variance such as the all-zero vector) is skipped: the
\* mean correlation is the mean over the computable pairs, and the texture
\* indicators are those this mean gives.
C20_SkippedAsStated ==
    FullAnalysis =>
        LET x == TextureWindow(result.track_id)
            good == ComputablePairs(x)
        IN  (Len(x) >= 3 /\ good # << >> /\ Len(good) < Len(x) - 1)
                => LET m == Rat(Sum([i \in 1..Len(good) |-> good[i].r]),
                                Len(good) * 10000)
                   IN  /\ "texture_correlation" \in DOMAIN result.ret.analysis
                       /\ result.ret.analysis.texture_correlation = m
                       /\ TextureIndicatorsFor(m)

\* np.diff by its definition: the consecutive differences.
Differences(xs) == [i \in 1..(Len(xs) - 1) |-> xs[i + 1] - xs[i]]

MovementTypes == {"no_micro_movement", "natural_movement"}

InUnitInterval(r) == r.den > 0 /\ 0 <= r.num /\ r.num <= r.den

\* C22 as stated: for every window of at least 5 real scores the periodicity
\* score, the maximum over the positive lags of the autocorrelation of the
\* mean-centred scores divided by its zero-lag value, lies in [0, 1].
C22_RangeAsStated ==
    (FullAnalysis /\ Len(WindowReal(result.track_id)) >= 5) =>
        /\ "periodicity" \in DOMAIN result.ret.analysis
        /\ InUnitInterval(result.ret.analysis.periodicity)

\* A window of one repeated score.
AllEqual(xs) == \A i \in 1..Len(xs) : xs[i] = xs[1]

\* C23 as stated: _detect_periodicity returns a finite score for every window,
\* and 0.0 for a window of fewer than 5 scores and for a constant window,
\* whose zero-lag autocorrelation is 0.
C23_DegenerateAsStated ==
    \A t \in DOMAIN score_history :
        LET xs == WindowReal(t)
            p == detect_periodicity(xs)
        IN  /\ ~IsNaN(p)
            /\ (Len(xs) < 5 \/ AllEqual(xs)) => (p.num = 0 /\ p.den > 0)

(***************************************************************************)
(* update_history and analyze_temporal_pattern statement by statement.     *)
(* A thread's frame holds the call, its arguments, the line it is at (pc)  *)
(* and its locals.  A subscript on a dictionary that lacks the key raises  *)
(* KeyError: the frame stops at "raised".  `pre` is what the three         *)
(* dictionaries held for the track when the call began, kept to compare    *)
(* the outcome with that of the same call run alone.                       *)
(***************************************************************************)
RestrictStore(S, t) ==
    [score     |-> [x \in DOMAIN S.score \cap {t} |-> S.score[x]],
     texture   |-> [x \in DOMAIN S.texture \cap {t} |-> S.texture[x]],
     timestamp |-> [x \in DOMAIN S.timestamp \cap {t} |-> S.timestamp[x]]]

SetFrame(p, f) == frames' = [frames EXCEPT ![p] = f]

Goto(p, pc) == SetFrame(p, [frames[p] EXCEPT !.pc = pc])

Raise(p) ==
    /\ Goto(p, "raised")
    /\ UNCHANGED <<score_history, texture_history, timestamp_history>>

\* The thread has returned from its call.
Return(p, r) ==
    /\ SetFrame(p, Idle(frames[p].done + 1))
    /\ result' = r

\* A thread is at a line of a call on the track.
InFlight(t) == \E p \in Threads : "track_id" \in DOMAIN frames[p] /\ frames[p].track_id = t

\* Line 63: the call begins and reads the clock.
CallUpdate(p, track_id, real_score, fake_score, texture_features) ==
    /\ frames[p].pc = "idle"
    /\ frames[p].done < MaxCalls
    /\ ~InFlight(track_id)
    /\ SetFrame(p, [pc |-> "66", done |-> frames[p].done,
                    call |-> "update_history", track_id |-> track_id,
                    real_score |-> real_score, fake_score |-> fake_score,
                    texture_features |-> texture_features,
                    current_time |-> now,
                    pre |-> RestrictStore(Store, track_id)])
    /\ UNCHANGED <<score_history, texture_history, timestamp_history, now, result>>

\* Line 66: if track_id not in self.score_history.
Update66(p) ==
    /\ frames[p].pc = "66"
    /\ Goto(p, IF frames[p].track_id \notin DOMAIN score_history THEN "67" ELSE "86")
    /\ UNCHANGED <<score_history, texture_history, timestamp_history, now, result>>

Update67(p) ==
    /\ frames[p].pc = "67"
    /\ score_history' = DictSet(score_history, frames[p].track_id, << >>)
    /\ Goto(p, "68")
    /\ UNCHANGED <<texture_history, timestamp_history, now, result>>

Update68(p) ==
    /\ frames[p].pc = "68"
    /\ texture_history' = DictSet(texture_history, frames[p].track_id, << >>)
    /\ Goto(p, "69")
    /\ UNCHANGED <<score_history, timestamp_history, now, result>>

Update69(p) ==
    /\ frames[p].pc = "69"
    /\ timestamp_history' = DictSet(timestamp_history, frames[p].track_id, << >>)
    /\ Goto(p, "86")
    /\ UNCHANGED <<score_history, texture_history, now, result>>

\* Lines 86-89 of _clean_old_entries, called from line 72.
Clean86(p) ==
    /\ frames[p].pc = "86"
    /\ Goto(p, IF frames[p].track_id \notin DOMAIN timestamp_history THEN "74" ELSE "90")
    /\ UNCHANGED <<score_history, texture_history, timestamp_history, now, result>>

\* The local `timestamps` of line 89.  It is the deque the dictionary holds
\* for the track; once clear_all has emptied the dictionary the frame is the
\* only holder of that deque, kept in the frame's field `timestamps`.
LocalTimestamps(p) ==
    IF "timestamps" \in DOMAIN frames[p]
    THEN frames[p].timestamps
    ELSE timestamp_history[frames[p].track_id]

\* Line 90: the test of the while loop, on the deque looked up at line 89.
Clean90(p) ==
    /\ frames[p].pc = "90"
    /\ LET timestamps == LocalTimestamps(p)
       IN  Goto(p, IF /\ timestamps # << >>
                      /\ (frames[p].current_time - Head(timestamps)) > history_timeout
                   THEN "91" ELSE "74")
    /\ UNCHANGED <<score_history, texture_history, timestamp_history, now, result>>

\* Line 91: timestamps.popleft().
Clean91(p) ==
    /\ frames[p].pc = "91"
    /\ IF "timestamps" \in DOMAIN frames[p]
       THEN /\ SetFrame(p, [frames[p] EXCEPT !.pc = "92", !.timestamps = Tail(@)])
            /\ UNCHANGED timestamp_history
       ELSE /\ timestamp_history' = DictSet(timestamp_history, frames[p].track_id,
                                            Tail(LocalTimestamps(p)))
            /\ Goto(p, "92")
    /\ UNCHANGED <<score_history, texture_history, now, result>>

Clean92(p) ==
    /\ frames[p].pc = "92"
    /\ LET t == frames[p].track_id
       IN  score_history' = IF t \in DOMAIN score_history /\ score_history[t] # << >>
                            THEN DictSet(score_history, t, Tail(score_history[t]))
                            ELSE score_history
    /\ Goto(p, "94")
    /\ UNCHANGED <<texture_history, timestamp_history, now, result>>

Clean94(p) ==
    /\ frames[p].pc = "94"
    /\ LET t == frames[p].track_id
       IN  texture_history' = IF t \in DOMAIN texture_history /\ texture_history[t] # << >>
                              THEN DictSet(texture_history, t, Tail(texture_history[t]))
                              ELSE texture_history
    /\ Goto(p, "90")
    /\ UNCHANGED <<score_history, timestamp_history, now, result>>

\* Lines 74-77.
Update74(p) ==
    /\ frames[p].pc = "74"
    /\ LET f == frames[p]
       IN  IF f.track_id \notin DOMAIN score_history
           THEN Raise(p)
           ELSE /\ score_history' =
                      DictSet(score_history, f.track_id,
                          DequeAppend(score_history[f.track_id],
                              [real_score |-> f.real_score, fake_score |-> f.fake_score,
                               at |-> f.current_time]))
                /\ Goto(p, "78")
                /\ UNCHANGED <<texture_history, timestamp_history>>
    /\ UNCHANGED <<now, result>>

Update78(p) ==
    /\ frames[p].pc = "78"
    /\ LET f == frames[p]
       IN  IF f.track_id \notin DOMAIN timestamp_history
           THEN Raise(p)
           ELSE /\ timestamp_history' =
                      DictSet(timestamp_history, f.track_id,
                          DequeAppend(timestamp_history[f.track_id], f.current_time))
                /\ Goto(p, "80")
                /\ UNCHANGED <<score_history, texture_history>>
    /\ UNCHANGED <<now, result>>

\* Lines 80-81, and the return.
Update80(p) ==
    /\ frames[p].pc = "80"
    /\ LET f == frames[p]
           r == ReturnedUpdate(f.track_id, f.real_score, f.fake_score, f.texture_features)
       IN  IF f.texture_features = None
           THEN /\ Return(p, r)
                /\ UNCHANGED <<score_history, texture_history, timestamp_history>>
           ELSE IF f.track_id \notin DOMAIN texture_history
           THEN Raise(p) /\ UNCHANGED result
           ELSE /\ texture_history' =
                      DictSet(texture_history, f.track_id,
                          DequeAppend(texture_history[f.track_id],
                              [features |-> f.texture_features, at |-> f.current_time]))
                /\ Return(p, r)
                /\ UNCHANGED <<score_history, timestamp_history>>
    /\ UNCHANGED now

\* analyze_temporal_pattern begins.
CallAnalyze(p, track_id) ==
    /\ frames[p].pc = "idle"
    /\ frames[p].done < MaxCalls
    /\ ~InFlight(track_id)
    /\ SetFrame(p, [pc |-> "130", done |-> frames[p].done,
                    call |-> "analyze_temporal_pattern", track_id |-> track_id,
                    pre |-> RestrictStore(Store, track_id)])
    /\ UNCHANGED <<score_history, texture_history, timestamp_history, now, result>>

AnalyzeReturned(p, ret) ==
    [call |-> "analyze_temporal_pattern", track_id |-> frames[p].track_id, ret |-> ret]

\* Lines 130-131: the minimum-history gate.
Analyze130(p) ==
    /\ frames[p].pc = "130"
    /\ IF InsufficientHistory(frames[p].track_id)
       THEN Return(p, AnalyzeReturned(p, [verdict |-> "UNCERTAIN", confidence |-> 500,
                                          analysis |-> [reason |-> "insufficient_history"]]))
       ELSE Goto(p, "133") /\ UNCHANGED result
    /\ UNCHANGED <<score_history, texture_history, timestamp_history, now>>

\* Lines 133-134: the two deques are looked up.
Analyze133(p) ==
    /\ frames[p].pc = "133"
    /\ IF frames[p].track_id \notin DOMAIN score_history
       THEN Raise(p)
       ELSE /\ Goto(p, "141")
            /\ UNCHANGED <<score_history, texture_history, timestamp_history>>
    /\ UNCHANGED <<now, result>>

\* Lines 141-142: the scores are copied out of the deque.
Analyze141(p) ==
    /\ frames[p].pc = "141"
    /\ SetFrame(p, [pc |-> "179"]
                   @@ [score_list |-> BufferOf(score_history, frames[p].track_id)]
                   @@ frames[p])
    /\ UNCHANGED <<score_history, texture_history, timestamp_history, now, result>>

\* Lines 177-179: the textures are copied out of the deque.
Analyze179(p) ==
    /\ frames[p].pc = "179"
    /\ SetFrame(p, [pc |-> "258"]
                   @@ [texture_list |-> BufferOf(texture_history, frames[p].track_id)]
                   @@ frames[p])
    /\ UNCHANGED <<score_history, texture_history, timestamp_history, now, result>>

\* Lines 258-281: the decision on the copies, and the return.
Analyze258(p) ==
    /\ frames[p].pc = "258"
    /\ Return(p, AnalyzeReturned(p, Analysis(frames[p].score_list, frames[p].texture_list)))
    /\ UNCHANGED <<score_history, texture_history, timestamp_history, now>>

\* The clock moves on while calls are in flight, by more than the timeout.
TickThreads ==
    /\ now + history_timeout + 1 <= MaxTime
    /\ now' = now + history_timeout + 1
    /\ UNCHANGED <<score_history, texture_history, timestamp_history, result, frames>>

(***************************************************************************)
(* Two threads, each making up to MaxCalls calls on its own track, so that  *)
(* no two calls on one track are in flight together; the statements of the *)
(* calls interleave in every order.  Every update supplies a texture.      *)
(***************************************************************************)
NextThreads ==
    \/ \E p \in Threads, x \in Textures :
          CallUpdate(p, TrackOf(p), TrackPair[1], TrackPair[2], x) /\ UNCHANGED net
    \/ \E p \in Threads : CallAnalyze(p, TrackOf(p)) /\ UNCHANGED net
    \/ \E p \in Threads :
          \/ Update66(p) /\ UNCHANGED net
          \/ Update67(p) /\ UNCHANGED net
          \/ Update68(p) /\ UNCHANGED net
          \/ Update69(p) /\ UNCHANGED net
          \/ Clean86(p) /\ UNCHANGED net
          \/ Clean90(p) /\ UNCHANGED net
          \/ Clean91(p) /\ UNCHANGED net
          \/ Clean92(p) /\ UNCHANGED net
          \/ Clean94(p) /\ UNCHANGED net
          \/ Update74(p) /\ UNCHANGED net
          \/ Update78(p) /\ UNCHANGED net
          \/ Update80(p) /\ UNCHANGED net
          \/ Analyze130(p) /\ UNCHANGED net
          \/ Analyze133(p) /\ UNCHANGED net
          \/ Analyze141(p) /\ UNCHANGED net
          \/ Analyze179(p) /\ UNCHANGED net
          \/ Analyze258(p) /\ UNCHANGED net
    \/ TickThreads /\ UNCHANGED net

SpecThreads == Init /\ [][NextThreads]_vars

NoCallFails == \A p \in Threads : frames[p].pc # "raised"

\* The length invariants of every track no call is working on.
QuiescentLengths ==
    \A t \in Tracks :
        ~InFlight(t) =>
            /\ (t \in DOMAIN texture_history) = (t \in DOMAIN score_history)
            /\ (t \in DOMAIN timestamp_history) = (t \in DOMAIN score_history)
            /\ t \in DOMAIN score_history =>
                  /\ Len(score_history[t]) = Len(timestamp_history[t])
                  /\ Len(texture_history[t]) <= Len(score_history[t])
                  /\ Len(score_history[t]) <= history_size

\* What analyze_temporal_pattern returns on a store S when it runs alone.
AloneAnswer(S, t) ==
    IF t \notin DOMAIN S.score \/ Len(S.score[t]) < 3
    THEN InsufficientAnswer
    ELSE Analysis(S.score[t], BufferOf(S.texture, t))

\* A step changes a track only if it is a step of the call working on it.
StepsAreLocal ==
    \A t \in Tracks :
        (\A p \in Threads :
            (frames[p].pc # "idle" /\ frames[p].track_id = t) => frames'[p] = frames[p])
        => TrackUnchanged(t)

\* A call that returns leaves its track, or returns the answer, as the same
\* call run alone on what the track held when the call began.
ReturnsAsAlone ==
    \A p \in Threads :
        (frames[p].pc # "idle" /\ frames'[p].pc = "idle")
        => LET f == frames[p]
           IN  IF f.call = "update_history"
               THEN RestrictStore(Store', f.track_id)
                      = UpdatedStore(f.pre, f.track_id, f.real_score, f.fake_score,
                                     f.texture_features, f.current_time)
               ELSE result'.ret = AloneAnswer(f.pre, f.track_id)

\* C24: when the statements of update_history and analyze_temporal_pattern
\* calls on different tracks interleave (one call at a time per track), no
\* call raises, the length invariants hold for every track no call is
\* working on, a track is changed only by the call working on it, and
\* every call ends with the window or the answer it has when run alone.
C24_Independent ==
    [][NoCallFails' /\ QuiescentLengths' /\ StepsAreLocal /\ ReturnsAsAlone]_vars

\* One thread is inside the eviction loop of an update of one track when an
\* analysis of the other track, on a window of at least 3 entries, returns.
C24_Witness ==
    /\ FullAnalysis
    /\ \E q \in Threads :
          /\ frames[q].pc = "92"
          /\ frames[q].track_id # result.track_id
          /\ result.track_id \in DOMAIN score_history


(***************************************************************************)
(* C25.  analyze_temporal_pattern, for every store state and every track   *)
(* identifier, returns a verdict that is one of REAL, SPOOF and UNCERTAIN  *)
(* together with a confidence between 0 and 1 (0..1000 thousandths).  A    *)
(* non-number among the intermediates (the periodicity of a constant       *)
(* window) does not reach the confidence.                                  *)
(***************************************************************************)
Verdicts == {"REAL", "SPOOF", "UNCERTAIN"}

C25_VerdictAndConfidence ==
    Analysed =>
        /\ result.ret.verdict \in Verdicts
        /\ result.ret.confidence \in 0..1000

\* A full constant window: the periodicity is not a number, the verdict is
\* SPOOF with the confidence of static_scores.
C25_Witness ==
    /\ FullAnalysis
    /\ "periodicity" \in DOMAIN result.ret.analysis
    /\ IsNaN(result.ret.analysis.periodicity)
    /\ result.ret.verdict = "SPOOF"
    /\ result.ret.confidence = 950


(***************************************************************************)
(* C26.  Detector failures are isolated.  When no pair of consecutive      *)
(* texture vectors yields a correlation (mismatched lengths, or a constant *)
(* vector), or the periodicity of the window is not computed (a constant   *)
(* window), the variance and movement detectors still put their indicators *)
(* into the pools, and the pools, the verdict and the confidence are those *)
(* obtained from the same score window with the failing detector           *)
(* contributing no indicator.                                              *)
(***************************************************************************)
TextureFails(x) ==
    /\ Len(x) >= 3
    /\ \A i \in 1..(Len(x) - 1) : ~Computable(x[i], x[i + 1])

PeriodicityFails(xs) == Len(xs) >= 5 /\ IsNaN(detect_periodicity(xs))

C26_FailuresIsolated ==
    FullAnalysis =>
        LET t == result.track_id
            xs == WindowReal(t)
            x == TextureWindow(t)
            spoof == VarianceSpoof(xs)
                     \o (IF TextureFails(x) THEN << >>
                         ELSE TextureSpoof(BufferOf(texture_history, t)))
                     \o MovementSpoof(xs)
                     \o (IF PeriodicityFails(xs) THEN << >> ELSE PeriodicitySpoof(xs))
            real == VarianceReal(xs)
                    \o (IF TextureFails(x) THEN << >>
                        ELSE TextureReal(BufferOf(texture_history, t)))
                    \o MovementReal(xs)
            decision == Decide(spoof, real)
        IN  (TextureFails(x) \/ PeriodicityFails(xs)) =>
                /\ SpoofPool = spoof
                /\ RealPool = real
                /\ result.ret.verdict = decision.verdict
                /\ result.ret.confidence = decision.confidence
                /\ TextureFails(x) =>
                      /\ result.ret.verdict = Analysis(score_history[t], << >>).verdict
                      /\ result.ret.confidence = Analysis(score_history[t], << >>).confidence

\* Every pair of the texture window has mismatched lengths and the score
\* window is constant and full: both computations fail, and the variance and
\* movement detectors still decide SPOOF.
C26_Witness ==
    /\ FullAnalysis
    /\ TextureWindow(result.track_id) = <<TextureA, ShortTexture, TextureA, ShortTexture, TextureA>>
    /\ PeriodicityFails(WindowReal(result.track_id))
    /\ PoolTypes(SpoofPool) = {"static_scores", "no_micro_movement"}
    /\ result.ret.verdict = "SPOOF"


(***************************************************************************)
(* extract_texture_features, lines 339-369.  A face crop is None or an     *)
(* array with a shape and its pixel data; a BGR crop has shape (h, w, 3)   *)
(* and 8-bit channels.  Components of the feature vector are exact         *)
(* fractions v / 255.  The method reads and writes no field of the         *)
(* analyzer.                                                               *)
(***************************************************************************)
FeatureSide == 16

FeatureLength == 256

NoneCrop == [kind |-> "None"]

\* Crops the callers can pass: two flat colours laid out as left and right
\* halves or as a one-pixel chequerboard, at the grid's size and at twice it.
Colours ==
    {<<0, 0, 0>>, <<255, 255, 255>>, <<255, 0, 0>>, <<0, 255, 0>>, <<0, 0, 255>>,
     <<128, 128, 128>>}

CropSides == {FeatureSide, 2 * FeatureSide}

HalvesCrop(n, a, b) ==
    [kind |-> "ndarray", shape |-> <<n, n, 3>>,
     data |-> [r \in 1..n |-> [c \in 1..n |-> IF 2 * c <= n THEN a ELSE b]]]

ChequerCrop(n, a, b) ==
    [kind |-> "ndarray", shape |-> <<n, n, 3>>,
     data |-> [r \in 1..n |-> [c \in 1..n |-> IF (r + c) % 2 = 0 THEN a ELSE b]]]

HalvesCrops == {HalvesCrop(n, a, b) : n \in CropSides, a \in Colours, b \in Colours}

ChequerCrops == {ChequerCrop(n, a, b) : n \in CropSides, a \in Colours, b \in Colours}

\* None, arrays with no pixel, a single-channel array and a two-channel one.
BadCrops ==
    {NoneCrop,
     [kind |-> "ndarray", shape |-> <<0, 0, 3>>, data |-> << >>],
     [kind |-> "ndarray", shape |-> <<FeatureSide, 0, 3>>,
      data |-> [r \in 1..FeatureSide |-> << >>]],
     [kind |-> "ndarray", shape |-> <<FeatureSide, FeatureSide>>,
      data |-> [r \in 1..FeatureSide |-> [c \in 1..FeatureSide |-> 128]]],
     [kind |-> "ndarray", shape |-> <<FeatureSide, FeatureSide, 2>>,
      data |-> [r \in 1..FeatureSide |-> [c \in 1..FeatureSide |-> <<128, 128>>]]]}

FaceCrops == HalvesCrops \cup ChequerCrops \cup BadCrops

\* cv2.cvtColor(face_crop, cv2.COLOR_BGR2GRAY) raises cv2.error on None, on an
\* array without pixels and on an array that has not 3 or 4 channels.
CvtColorRaises(face_crop) ==
    \/ face_crop.kind # "ndarray"
    \/ \E k \in 1..Len(face_crop.shape) : face_crop.shape[k] = 0
    \/ Len(face_crop.shape) # 3
    \/ face_crop.shape[3] \notin {3, 4}

\* The 8-bit luminance 0.114 B + 0.587 G + 0.299 R in the library's fixed
\* point: weights scaled by 2^14, rounded.
BGR2GRAY(px) == (px[1] * 1868 + px[2] * 9617 + px[3] * 4899 + 8192) \div 16384

cvtColor(face_crop) ==
    [r \in 1..face_crop.shape[1] |->
        [c \in 1..face_crop.shape[2] |-> BGR2GRAY(face_crop.data[r][c])]]

\* cv2.resize(gray, (16, 16), interpolation=cv2.INTER_AREA) for sides that are
\* multiples of 16: each output pixel is the rounded mean of its block.
resize(gray) ==
    LET sy == Len(gray) \div FeatureSide
        sx == Len(gray[1]) \div FeatureSide
        area == sy * sx
    IN  [r \in 1..FeatureSide |-> [c \in 1..FeatureSide |->
            LET block == [k \in 1..area |->
                             gray[(r - 1) * sy + ((k - 1) \div sx) + 1]
                                 [(c - 1) * sx + ((k - 1) % sx) + 1]]
            IN  (2 * Sum(block) + area) \div (2 * area)]]

\* np.zeros(16): the side of the grid where its area is meant.
ZeroVector_side == [i \in 1..FeatureSide |-> Rat(0, 1)]

\* np.zeros(256, dtype=np.float32), line 369.
ZeroVector == [i \in 1..FeatureLength |-> Rat(0, 1)]

\* downsampled.astype(np.float32) / 255.0, line 359.
Normalized(downsampled) ==
    [r \in 1..Len(downsampled) |->
        [c \in 1..Len(downsampled[r]) |-> Rat(downsampled[r][c], 255)]]

\* normalized.flatten(), row-major, line 362.
Flatten(normalized) ==
    LET w == Len(normalized[1])
    IN  [i \in 1..(Len(normalized) * w) |->
            normalized[((i - 1) \div w) + 1][((i - 1) % w) + 1]]

extract_texture_features(face_crop) ==
    IF CvtColorRaises(face_crop)
    THEN ZeroVector
    ELSE Flatten(Normalized(resize(cvtColor(face_crop))))

Extract(face_crop) ==
    /\ result' = [call |-> "extract_texture_features",
                  args |-> [face_crop |-> face_crop],
                  ret |-> extract_texture_features(face_crop)]
    /\ UNCHANGED <<score_history, texture_history, timestamp_history, now, frames>>

NextExtract == \E face_crop \in FaceCrops : Extract(face_crop) /\ UNCHANGED net

SpecExtract == Init /\ [][NextExtract]_vars

(***************************************************************************)
(* C27.  extract_texture_features always returns: a vector of 256          *)
(* components, each in [0, 1]; on a degenerate crop (None, no pixel, or    *)
(* not a colour image) every component is 0.                               *)
(***************************************************************************)
Extracted == result.call = "extract_texture_features"

Degenerate(face_crop) ==
    \/ face_crop.kind = "None"
    \/ 0 \in {face_crop.shape[k] : k \in 1..Len(face_crop.shape)}
    \/ Len(face_crop.shape) # 3
    \/ face_crop.shape[Len(face_crop.shape)] < 3

C27_ExtractTotal ==
    Extracted =>
        LET features == result.ret
            face_crop == result.args.face_crop
        IN  /\ Len(features) = 256
            /\ \A i \in 1..Len(features) :
                  /\ features[i].den > 0
                  /\ 0 <= features[i].num
                  /\ features[i].num <= features[i].den
            /\ Degenerate(face_crop) =>
                  \A i \in 1..Len(features) : features[i].num = 0

\* The zero-size crop: an array of shape (0, 0, 3) gives 256 zeros.
C27_Witness ==
    /\ Extracted
    /\ result.args.face_crop.kind = "ndarray"
    /\ result.args.face_crop.shape = <<0, 0, 3>>
    /\ Len(result.ret) = 256
    /\ \A i \in 1..256 : result.ret[i].num = 0


(***************************************************************************)
(* One track fed with scores and optional textures, within the timeout:    *)
(* low scores that move a little (no variance indicator fires), a high     *)
(* score, and two textures whose correlation is 0.79, so that the mean     *)
(* correlation of a window falls above 0.97, between 0.9215 and 0.97, and  *)
(* below 0.90, and every mix of spoof and real indicators comes up.  The   *)
(* three scores give windows for static_scores, low_variance,              *)
(* natural_variance and none of them, none on a threshold.                 *)
(***************************************************************************)
MixedScores == {300, 400, 810}

MixedTextures == {TextureA, TextureD}

NextMixed ==
    \/ \E r \in MixedScores, x \in MixedTextures \cup {None} :
          update_history(1, r, 1000 - r, x) /\ UNCHANGED net
    \/ Analyze(1, TrackPair[1], TrackPair[2]) /\ UNCHANGED net
    \/ clear_track(1) /\ UNCHANGED net

SpecMixed == Init /\ [][NextMixed]_vars


(***************************************************************************)
(* C28.  Real indicators never outweigh a spoof indicator.  A REAL verdict *)
(* is returned only from an empty spoof pool, and whenever the spoof pool  *)
(* holds an indicator other than high_correlation the verdict is SPOOF,    *)
(* whatever the real pool holds.                                           *)
(***************************************************************************)
StrongSpoof == PoolTypes(SpoofPool) \ {"high_correlation"}

C28_SpoofOutweighs ==
    FullAnalysis =>
        /\ result.ret.verdict = "REAL" => SpoofPool = << >>
        /\ StrongSpoof # {} => result.ret.verdict = "SPOOF"

\* static_texture next to the two strongest real indicators: SPOOF.
C28_Witness ==
    /\ FullAnalysis
    /\ PoolTypes(SpoofPool) = {"static_texture"}
    /\ PoolTypes(RealPool) = {"natural_variance", "natural_movement"}
    /\ result.ret.verdict = "SPOOF"
    /\ result.ret.confidence = 920


(***************************************************************************)
(* C29.  An indicator sitting exactly on its threshold cannot decide       *)
(* alone.  When natural_movement (0.70) is the only indicator in either    *)
(* pool the verdict is UNCERTAIN, not REAL; when high_correlation (0.80)   *)
(* is the only spoof indicator the verdict is never SPOOF, whatever the    *)
(* real pool holds.                                                        *)
(***************************************************************************)
OnlyNaturalMovement ==
    /\ SpoofPool = << >>
    /\ PoolTypes(RealPool) = {"natural_movement"}

OnlyHighCorrelation == PoolTypes(SpoofPool) = {"high_correlation"}

C29_StrictThresholds ==
    FullAnalysis =>
        /\ OnlyNaturalMovement =>
              /\ result.ret.verdict = "UNCERTAIN"
              /\ result.ret.confidence = 500
        /\ OnlyHighCorrelation =>
              /\ result.ret.verdict # "SPOOF"
              /\ result.ret.verdict = "UNCERTAIN"

\* Five low scores that move by 0.05, fewer than three textures stored:
\* natural_movement alone, and the answer is UNCERTAIN.
C29_Witness ==
    /\ FullAnalysis
    /\ OnlyNaturalMovement
    /\ Len(WindowReal(result.track_id)) = history_size
    /\ result.ret.verdict = "UNCERTAIN"
    /\ result.ret.confidence = 500


(***************************************************************************)
(* C30.  The answer depends on the stored window only.  In every state,    *)
(* analyze_temporal_pattern calls on one track that differ in              *)
(* current_real_score and current_fake_score return the same verdict, the  *)
(* same confidence and the same indicator pools (the whole analysis        *)
(* record); the answer of the call that was made is that common answer.    *)
(***************************************************************************)
CurrentScores == UNION {{<<r, 50>>, <<r, 1000 - r>>} : r \in PatternScores}

\* The answers a track gives over all the current scores.
AnswersOf(t) == {analyze_temporal_pattern(t, a[1], a[2]) : a \in CurrentScores}

C30_CurrentScoresIgnored ==
    /\ \A t \in Tracks : Cardinality(AnswersOf(t)) = 1
    /\ Analysed => AnswersOf(result.track_id) = {result.ret}

\* A full window with a REAL answer: calling with current scores of a spoof
\* (real 0.5, fake 0.5) or of a live face (0.95, 0.05) gives that answer.
C30_Witness ==
    /\ FullAnalysis
    /\ Len(WindowReal(result.track_id)) = history_size
    /\ result.ret.verdict = "REAL"
    /\ analyze_temporal_pattern(result.track_id, 500, 500).verdict = "REAL"
    /\ analyze_temporal_pattern(result.track_id, 950, 50).verdict = "REAL"


(***************************************************************************)
(* One track fed with one score pair while the clock runs, and read by     *)
(* analyze_temporal_pattern and get_track_stability at any later time.     *)
(***************************************************************************)
NextStale ==
    \/ update_history(1, TrackPair[1], TrackPair[2], None) /\ UNCHANGED net
    \/ Analyze(1, TrackPair[1], TrackPair[2]) /\ UNCHANGED net
    \/ Stability(1) /\ UNCHANGED net
    \/ Tick /\ UNCHANGED net

SpecStale == Init /\ [][NextStale]_vars

\* C31 as stated: every entry that analyze_temporal_pattern evaluates, and
\* every entry that get_track_stability counts, was recorded at most
\* history_timeout before the time of that call, also when the call comes
\* long after the last update of the track.
Fresh(t) ==
    \A i \in 1..Len(BufferOf(score_history, t)) :
        now - score_history[t][i].at <= history_timeout

C31_ReadsFreshAsStated ==
    /\ FullAnalysis => Fresh(result.track_id)
    /\ (StabilityAsked /\ result.ret > 0) => Fresh(result.track_id)


\* C32 as stated: after any update_history call at time now, every texture
\* retained in the track's texture buffer was supplied by an update that is
\* still represented in the score window, and hence was supplied no more than
\* history_timeout before now, also when textures are supplied on some
\* updates only and the score buffer is at capacity.
C32_TexturesCoveredAsStated ==
    Updated =>
        LET t == result.track_id
        IN  \A i \in 1..Len(texture_history[t]) :
                /\ \E j \in 1..Len(score_history[t]) :
                      score_history[t][j].at = texture_history[t][i].at
                /\ now - texture_history[t][i].at <= history_timeout


(***************************************************************************)
(* C33.  With history_size = 5 the video_loop indicator is unreachable:    *)
(* for every window of 5 real scores the periodicity is not above 0.8 (on  *)
(* a constant window it is not a number, on every other window it is a     *)
(* number of at most 0.8), and the spoof pool never holds video_loop.      *)
(***************************************************************************)
FullWindow(t) == Len(BufferOf(score_history, t)) = history_size

AfterGap(t) ==
    /\ t \in DOMAIN timestamp_history
    /\ timestamp_history[t] # << >>
    /\ now - Last(timestamp_history[t]) > history_timeout

C34_GapResets ==
    [][\A t \in Tracks :
          (result'.call = "update_history" /\ result'.track_id = t /\ AfterGap(t)) =>
              LET args == result'.args
              IN  /\ Len(score_history'[t]) = 1
                  /\ score_history'[t][1].real_score = args.real_score
                  /\ score_history'[t][1].fake_score = args.fake_score
                  /\ timestamp_history'[t] = <<now>>
                  /\ IF args.texture_features = None
                     THEN texture_history'[t] = << >>
                     ELSE /\ Len(texture_history'[t]) = 1
                          /\ texture_history'[t][1].features = args.texture_features
                  /\ get_track_stability(t)' * history_size = 1000
                  /\ analyze_temporal_pattern(t, 950, 50)' = InsufficientAnswer]_vars

\* The state an update after a gap starts from: a full score window with
\* textures, all of it recorded two seconds ago.  update_history is enabled in
\* every state, so the step the property speaks of is taken from here.
C34_Witness ==
    /\ AfterGap(1)
    /\ Len(score_history[1]) = history_size
    /\ Len(texture_history[1]) >= 3
    /\ get_track_stability(1) = 1000


(***************************************************************************)
(* C35.  Within one analysis no detector contradicts itself: static_scores *)
(* and low_variance are never returned together, neither of them together  *)
(* with natural_variance, no_micro_movement never together with            *)
(* natural_movement, and (correlation_threshold = 0.97) neither            *)
(* static_texture nor high_correlation together with dynamic_texture.      *)
(***************************************************************************)
Fired == PoolTypes(SpoofPool) \cup PoolTypes(RealPool)

NeverTogether(a, b) == ~(a \in Fired /\ b \in Fired)

C35_NoSelfContradiction ==
    FullAnalysis =>
        /\ NeverTogether("static_scores", "low_variance")
        /\ NeverTogether("static_scores", "natural_variance")
        /\ NeverTogether("low_variance", "natural_variance")
        /\ NeverTogether("no_micro_movement", "natural_movement")
        /\ NeverTogether("static_texture", "dynamic_texture")
        /\ NeverTogether("high_correlation", "dynamic_texture")

\* Three detectors answer at once, each with one indicator.
C35_Witness ==
    /\ FullAnalysis
    /\ Fired = {"low_variance", "high_correlation", "natural_movement"}


(***************************************************************************)
(* clear_all statement by statement, lines 382-384, next to update_history *)
(* calls of another thread.  The frame of clear_all keeps, for the         *)
(* properties only, what the other frames and the timestamp dictionary     *)
(* were when it began (`seen`, `ts_seen`): a frame that is unchanged when  *)
(* clear_all ends has not taken a step in between, and is marked `reset`.  *)
(***************************************************************************)
\* After the lazy-creation check of lines 66-69 and before the appends of
\* lines 74-81.
InWindow(f) == f.pc \in {"86", "90", "91", "92", "94", "74"}

\* The frame holds the deque looked up at line 89.
InLoop(f) == f.pc \in {"90", "91", "92", "94"}

\* The resets a thread makes in the statement-level specification.
MaxResets == 2

CallClearAll(p) ==
    /\ frames[p].pc = "idle"
    /\ frames[p].done < MaxResets
    /\ SetFrame(p, [pc |-> "382", done |-> frames[p].done, call |-> "clear_all",
                    seen |-> frames, ts_seen |-> timestamp_history])
    /\ UNCHANGED <<score_history, texture_history, timestamp_history, now, result>>

\* Line 382: self.score_history.clear().
Clear382(p) ==
    /\ frames[p].pc = "382"
    /\ score_history' = EmptyDict
    /\ Goto(p, "383")
    /\ UNCHANGED <<texture_history, timestamp_history, now, result>>

\* Line 383: self.texture_history.clear().
Clear383(p) ==
    /\ frames[p].pc = "383"
    /\ texture_history' = EmptyDict
    /\ Goto(p, "384")
    /\ UNCHANGED <<score_history, timestamp_history, now, result>>

\* Line 384: self.timestamp_history.clear(), and the return.  A frame inside
\* the while loop of _clean_old_entries keeps the deque it looked up.
Clear384(p) ==
    /\ frames[p].pc = "384"
    /\ timestamp_history' = EmptyDict
    /\ frames' =
          [q \in Threads |->
              IF q = p
              THEN Idle(frames[p].done + 1)
              ELSE LET f == frames[q]
                       untouched == /\ f = frames[p].seen[q]
                                    /\ timestamp_history = frames[p].ts_seen
                   IN  (IF InWindow(f) /\ untouched
                        THEN [reset |-> TRUE] ELSE EmptyDict)
                       @@ (IF InLoop(f) /\ "timestamps" \notin DOMAIN f
                           THEN [timestamps |-> timestamp_history[f.track_id]]
                           ELSE EmptyDict)
                       @@ f]
    /\ result' = [call |-> "clear_all"]
    /\ UNCHANGED <<score_history, texture_history, now>>

(***************************************************************************)
(* Thread 1 ingests observations of track 1 while thread 2 resets the      *)
(* store, the statements of the two interleaving in every order.           *)
(***************************************************************************)
NextReset ==
    \/ \E x \in Textures \cup {None} :
          CallUpdate(1, TrackOf(1), TrackPair[1], TrackPair[2], x) /\ UNCHANGED net
    \/ Update66(1) /\ UNCHANGED net
    \/ Update67(1) /\ UNCHANGED net
    \/ Update68(1) /\ UNCHANGED net
    \/ Update69(1) /\ UNCHANGED net
    \/ Clean86(1) /\ UNCHANGED net
    \/ Clean90(1) /\ UNCHANGED net
    \/ Clean91(1) /\ UNCHANGED net
    \/ Clean92(1) /\ UNCHANGED net
    \/ Clean94(1) /\ UNCHANGED net
    \/ Update74(1) /\ UNCHANGED net
    \/ Update78(1) /\ UNCHANGED net
    \/ Update80(1) /\ UNCHANGED net
    \/ CallClearAll(2) /\ UNCHANGED net
    \/ Clear382(2) /\ UNCHANGED net
    \/ Clear383(2) /\ UNCHANGED net
    \/ Clear384(2) /\ UNCHANGED net
    \/ TickThreads /\ UNCHANGED net

SpecReset == Init /\ [][NextReset]_vars

\* C36 as stated: when clear_all() runs between two steps of an
\* update_history call, after its lazy-creation check and before its appends,
\* the update still completes without error, and when it has returned the
\* track's score and timestamp buffers have the same length.
WasReset(q) == "reset" \in DOMAIN frames[q]

C36_ResetSafeAsStated ==
    [][\A q \in Threads :
          WasReset(q) =>
              /\ frames'[q].pc # "raised"
              /\ frames'[q].pc = "idle" =>
                    LET t == frames[q].track_id
                    IN  /\ t \in DOMAIN score_history'
                        /\ t \in DOMAIN timestamp_history'
                        /\ Len(score_history'[t]) = Len(timestamp_history'[t])]_vars


(***************************************************************************)
(* ConnectionManager (src/src/websocket/manager.py).  Its coroutines run   *)
(* on one event loop: a coroutine runs without interruption from one await *)
(* to the next, so an action is the code between two awaits, and the       *)
(* synchronous disconnect is one action.  `frames` holds the coroutines as *)
(* it holds the threads of the analyzer.                                   *)
(***************************************************************************)
Tasks == Threads

\* The calls a coroutine makes.
MaxRequests == 3

\* What the connection manager never touches.
analyzer == <<score_history, texture_history, timestamp_history, now>>

\* Line 50: the info stored when the caller gives none.
DefaultInfo == [connected_at |-> "unknown"]

\* The client_info arguments: none (falsy at line 47), or the one the
\* endpoint builds at routes.py lines 314-317.
ClientInfos == {None, [connected_at |-> "now", client |-> "host"]}

\* The text json.dumps gives for a message; the manager never looks into it.
MessageText == "text"

\* list(self.active_connections), line 94: the set in some order.
Lists(S) == {q \in [1..Cardinality(S) -> S] : \A i, j \in 1..Cardinality(S) : q[i] = q[j] => i = j}

Range(q) == {q[i] : i \in 1..Len(q)}

\* Line 61, for each of the websockets: set.discard.
discard(S, websockets) == S \ websockets

\* Line 62 without the removal.
pop_nothing(D, websockets) == D

\* Line 62, for each of the websockets: dict.pop(websocket, None).
pop(D, websockets) == [w \in DOMAIN D \ websockets |-> D[w]]

\* disconnect (lines 54-63) of each of the websockets.
disconnect(websockets) ==
    /\ active_connections' = discard(active_connections, websockets)
    /\ connection_info' = pop(connection_info, websockets)

\* websocket.send_text has delivered the text.
send_text(websocket, text) == sent' = [sent EXCEPT ![websocket] = Append(@, text)]

\* Line 43: connect is called and awaits websocket.accept().
CallConnect(p, websocket, client_info) ==
    /\ frames[p].pc = "idle"
    /\ frames[p].done < MaxRequests
    /\ SetFrame(p, [pc |-> "43", done |-> frames[p].done, call |-> "connect",
                    websocket |-> websocket, client_info |-> client_info])
    /\ UNCHANGED <<analyzer, result, net>>

\* Lines 44-52, once accept() has returned; when accept() raises, connect
\* raises with it.
Connect43(p) ==
    /\ frames[p].pc = "43"
    /\ frames[p].call = "connect"
    /\ LET f == frames[p]
       IN  \E accepted \in BOOLEAN :
              IF accepted
              THEN /\ active_connections' = active_connections \cup {f.websocket}
                   /\ connection_info' =
                         DictSet(connection_info, f.websocket,
                             IF f.client_info # None THEN f.client_info ELSE DefaultInfo)
                   /\ Return(p, [call |-> "connect", websocket |-> f.websocket,
                                 raised |-> FALSE])
              ELSE /\ Return(p, [call |-> "connect", websocket |-> f.websocket,
                                 raised |-> TRUE])
                   /\ UNCHANGED <<active_connections, connection_info>>
    /\ UNCHANGED <<analyzer, sent, records>>

\* Lines 54-63, called from a coroutine that is not inside another call.
Disconnect(p, websocket) ==
    /\ frames[p].pc = "idle"
    /\ frames[p].done < MaxRequests
    /\ disconnect({websocket})
    /\ Return(p, [call |-> "disconnect", websocket |-> websocket])
    /\ UNCHANGED <<analyzer, sent, records>>

\* Line 74: send_personal_message is called and awaits send_text.
CallSend(p, websocket) ==
    /\ frames[p].pc = "idle"
    /\ frames[p].done < MaxRequests
    /\ SetFrame(p, [pc |-> "74", done |-> frames[p].done,
                    call |-> "send_personal_message", websocket |-> websocket])
    /\ UNCHANGED <<analyzer, result, net>>

\* Lines 74-78, once send_text has returned or raised.
Send74(p) ==
    /\ frames[p].pc = "74"
    /\ frames[p].call = "send_personal_message"
    /\ LET f == frames[p]
       IN  \E delivered \in BOOLEAN :
              /\ IF delivered
                 THEN /\ send_text(f.websocket, MessageText)
                      /\ UNCHANGED <<active_connections, connection_info>>
                 ELSE /\ disconnect({f.websocket})
                      /\ UNCHANGED sent
              /\ Return(p, [call |-> "send_personal_message",
                            websocket |-> f.websocket, failed |-> ~delivered])
    /\ UNCHANGED <<analyzer, records>>

\* Lines 87-96: broadcast is called; with connections it takes the list of
\* line 94 and awaits the first send_text.
CallBroadcast(p) ==
    /\ frames[p].pc = "idle"
    /\ frames[p].done < MaxRequests
    /\ IF active_connections = {}
       THEN Return(p, [call |-> "broadcast", attempted |-> {}, failed |-> {}])
       ELSE /\ \E connections \in Lists(active_connections) :
                  SetFrame(p, [pc |-> "96", done |-> frames[p].done,
                               call |-> "broadcast", connections |-> connections,
                               next |-> 1, disconnected_connections |-> << >>])
            /\ UNCHANGED result
    /\ UNCHANGED <<analyzer, net>>

\* Lines 96-105, once a send_text has returned or raised: the next
\* connection of the list, or after the last one the clean-up of lines
\* 102-103 and the return.
Broadcast96(p) ==
    /\ frames[p].pc = "96"
    /\ LET f == frames[p]
           connection == f.connections[f.next]
       IN  \E delivered \in BOOLEAN :
              LET disconnected_connections ==
                      IF delivered THEN f.disconnected_connections
                      ELSE Append(f.disconnected_connections, connection)
              IN  /\ IF delivered THEN send_text(connection, MessageText)
                                  ELSE UNCHANGED sent
                  /\ IF f.next < Len(f.connections)
                     THEN /\ SetFrame(p, [f EXCEPT !.next = @ + 1,
                                 !.disconnected_connections = disconnected_connections])
                          /\ UNCHANGED <<active_connections, connection_info, result>>
                     ELSE /\ disconnect(Range(disconnected_connections))
                          /\ Return(p, [call |-> "broadcast",
                                        attempted |-> Range(f.connections),
                                        failed |-> Range(disconnected_connections)])
    /\ UNCHANGED <<analyzer, records>>

(***************************************************************************)
(* Coroutines that connect, disconnect, send and broadcast over two        *)
(* websockets, interleaving at their awaits in every order.                *)
(***************************************************************************)
NextConnections ==
    \/ \E p \in Tasks, websocket \in WebSockets, client_info \in ClientInfos :
          CallConnect(p, websocket, client_info)
    \/ \E p \in Tasks : Connect43(p)
    \/ \E p \in Tasks, websocket \in WebSockets : Disconnect(p, websocket)
    \/ \E p \in Tasks, websocket \in WebSockets : CallSend(p, websocket)
    \/ \E p \in Tasks : Send74(p)
    \/ \E p \in Tasks : CallBroadcast(p)
    \/ \E p \in Tasks : Broadcast96(p)

SpecConnections == Init /\ [][NextConnections]_vars


\* The coroutine returns from a call in this step.
Returns(p, call) ==
    /\ frames'[p].pc = "idle"
    /\ frames'[p].done = frames[p].done + 1
    /\ result'.call = call

\* disconnect(websocket) runs in this step: called directly, after a failed
\* personal send, or in the clean-up of a broadcast.
Disconnects(websocket) ==
    \E p \in Tasks :
        \/ Returns(p, "disconnect") /\ result'.websocket = websocket
        \/ /\ Returns(p, "send_personal_message")
           /\ result'.websocket = websocket
           /\ result'.failed
        \/ Returns(p, "broadcast") /\ websocket \in result'.failed

\* The websockets whose disconnect runs in this step.
Disconnected == {websocket \in WebSockets : Disconnects(websocket)}

\* C37.  Under every interleaving of connect, disconnect,
\* send_personal_message and broadcast the keys of connection_info are the
\* active connections; a disconnect of an untracked websocket changes
\* nothing (the step removes the other websockets it disconnects, and
\* nothing else); when a broadcast returns, no connection whose send failed is
\* tracked and the tracking of those whose send succeeded is as it was; and
\* a connection leaves the tracking only in a step that runs its disconnect.
C37_TrackingConsistent ==
    /\ [](DOMAIN connection_info = active_connections)
    /\ [][\A websocket \in WebSockets :
             /\ (Disconnects(websocket) /\ websocket \notin active_connections) =>
                   /\ active_connections' = active_connections \ Disconnected
                   /\ connection_info' =
                         [w \in active_connections' |-> connection_info[w]]
             /\ (\E p \in Tasks : Returns(p, "broadcast")) =>
                   /\ websocket \in result'.failed => websocket \notin active_connections'
                   /\ websocket \in result'.attempted \ result'.failed =>
                         (websocket \in active_connections' <=>
                             websocket \in active_connections)
             /\ (websocket \in active_connections /\ websocket \notin active_connections')
                   => Disconnects(websocket)]_vars

\* A broadcast over two connections has returned with one send failed and
\* one delivered, the failed one untracked, while another coroutine is
\* inside a call.
C37_Witness ==
    /\ result.call = "broadcast"
    /\ Cardinality(result.attempted) = 2
    /\ Cardinality(result.failed) = 1
    /\ active_connections = result.attempted \ result.failed
    /\ \E p \in Tasks : frames[p].pc \in {"43", "74"}


(***************************************************************************)
(* The websocket endpoint (src/src/websocket/routes.py).  A text is a      *)
(* string; json.loads gives a dict (a record), another JSON value, or      *)
(* raises JSONDecodeError.                                                 *)
(***************************************************************************)
\* The texts a client sends.
Texts ==
    { "{",
      "[1]",
      "{}",
      "{\"action\": \"ping\"}",
      "{\"id\": \"r1\"}",
      "{\"id\": \"r1\", \"action\": \"fly\"}",
      "{\"id\": \"r1\", \"action\": \"ping\"}",
      "{\"id\": \"r2\", \"action\": \"sync_data\"}" }

\* The texts each connection receives at most.
MaxMessages == 2

\* What json.loads gives: the Python type of the value and the value, or the
\* exception it raised.
JSONDecodeError == [type |-> "JSONDecodeError"]

Dict(d) == [type |-> "dict", value |-> d]

List(q) == [type |-> "list", value |-> q]

\* json.loads on the texts above.
loads(text) ==
    CASE text = "[1]" -> List(<<1>>)
      [] text = "{}" -> Dict(EmptyDict)
      [] text = "{\"action\": \"ping\"}" -> Dict([action |-> "ping"])
      [] text = "{\"id\": \"r1\"}" -> Dict([id |-> "r1"])
      [] text = "{\"id\": \"r1\", \"action\": \"fly\"}" -> Dict([id |-> "r1", action |-> "fly"])
      [] text = "{\"id\": \"r1\", \"action\": \"ping\"}" -> Dict([id |-> "r1", action |-> "ping"])
      [] text = "{\"id\": \"r2\", \"action\": \"sync_data\"}" -> Dict([id |-> "r2", action |-> "sync_data"])
      [] OTHER -> JSONDecodeError

\* The parsed value is a dict: it has the get method of lines 59-61.
IsDict(message_data) == message_data.type = "dict"

\* Python's None where a string may stand.
NoString == "None"

\* dict.get(key, default).
get(d, key, default) == IF key \in DOMAIN d THEN d[key] ELSE default

\* manager.py lines 123-140.
create_success_response(request_id, action, payload) ==
    [id |-> request_id, action |-> action, status |-> "success", payload |-> payload]

\* manager.py lines 143-164.
create_error_response(request_id, action, error_message, error_code) ==
    [id |-> request_id, action |-> action, status |-> "error",
     payload |-> [message |-> error_message,
                  code |-> IF error_code # NoString THEN error_code ELSE "UNKNOWN_ERROR"]]

\* Line 35 and 39: the attendance system is set from outside, and is not
\* set here.
attendance_system == None

NotReady(request_id, action) ==
    create_error_response(request_id, action, "Attendance system not initialized",
                          "SYSTEM_NOT_READY")

\* The handlers of lines 109-306, each with the action name it answers under.
Handlers == {"ping", "get_version", "sync_data", "echo", "get_system_status",
             "get_connection_info", "get_today_attendance",
             "subscribe_attendance_updates"}

Handle(action, request_id, payload) ==
    CASE action = "ping" -> create_success_response(request_id, "ping", [message |-> "pong"])
      [] action = "echo" -> create_success_response(request_id, "echo", [echoed_payload |-> payload])
      [] action \in {"sync_data", "get_system_status", "get_today_attendance"} /\ attendance_system = None ->
            NotReady(request_id, action)
      [] OTHER -> create_success_response(request_id, action, [info |-> action])

\* handle_websocket_message, lines 48-106, on a dict; `raises` says that the
\* handler raised.
handle_websocket_message(message_data, raises) ==
    LET request_id == get(message_data.value, "id", NoString)
        action == get(message_data.value, "action", NoString)
        payload == get(message_data.value, "payload", EmptyDict)
    IN  IF request_id = NoString
        THEN create_error_response("unknown", "unknown", "Missing 'id' field", "MISSING_ID")
        ELSE IF action = NoString
        THEN create_error_response(request_id, "unknown", "Missing 'action' field", "MISSING_ACTION")
        ELSE IF action \notin Handlers
        THEN create_error_response(request_id, action, "Unknown action", "UNKNOWN_ACTION")
        ELSE IF raises
        THEN create_error_response(request_id, action, "Internal server error", "INTERNAL_ERROR")
        ELSE Handle(action, request_id, payload)

\* The endpoint has left: what it received, what it answered and why it left.
Left(f, cause) ==
    [call |-> "websocket_endpoint", websocket |-> f.websocket, cause |-> cause,
     received |-> f.received, responses |-> f.responses]

\* Lines 314-319: the endpoint is called with a websocket nothing was sent
\* on, builds client_info and awaits the accept inside connect.
CallEndpoint(p, websocket) ==
    /\ frames[p].pc = "idle"
    /\ frames[p].done < MaxRequests
    /\ sent[websocket] = << >>
    /\ SetFrame(p, [pc |-> "319", done |-> frames[p].done, call |-> "websocket_endpoint",
                    websocket |-> websocket,
                    client_info |-> [connected_at |-> "now", client |-> "host"],
                    received |-> << >>, responses |-> << >>])
    /\ UNCHANGED <<analyzer, result, net>>

\* Line 319, once accept() has returned: connect tracks the websocket and the
\* loop awaits the first text.  When accept() raises the endpoint raises,
\* before its try.
Endpoint319(p) ==
    /\ frames[p].pc = "319"
    /\ LET f == frames[p]
       IN  \E accepted \in BOOLEAN :
              IF accepted
              THEN /\ active_connections' = active_connections \cup {f.websocket}
                   /\ connection_info' = DictSet(connection_info, f.websocket, f.client_info)
                   /\ Goto(p, "325")
                   /\ UNCHANGED result
              ELSE /\ Return(p, Left(f, "accept"))
                   /\ UNCHANGED <<active_connections, connection_info>>
    /\ UNCHANGED <<analyzer, sent, records>>

\* Lines 325-346, once receive_text has returned a text or raised
\* WebSocketDisconnect: up to the await of the send, or through the except
\* and finally clauses of lines 348-353 out of the endpoint.
Endpoint325(p) ==
    /\ frames[p].pc = "325"
    /\ LET f == frames[p]
       IN  \/ /\ disconnect({f.websocket})
              /\ Return(p, Left(f, "WebSocketDisconnect"))
           \/ /\ Len(f.received) < MaxMessages
              /\ \E message_text \in Texts, raises \in BOOLEAN :
                    LET message_data == loads(message_text)
                        g == [f EXCEPT !.received = Append(@, message_text)]
                    IN  IF message_data.type = "JSONDecodeError"
                        THEN /\ SetFrame(p, [g EXCEPT !.pc = "340", !.responses = Append(@,
                                    create_error_response("unknown", "unknown",
                                        "Invalid JSON", "JSON_PARSE_ERROR"))])
                             /\ UNCHANGED <<active_connections, connection_info, result>>
                        ELSE IF ~IsDict(message_data)
                        THEN /\ disconnect({f.websocket})
                             /\ Return(p, Left(g, "Exception"))
                        ELSE /\ SetFrame(p, [g EXCEPT !.pc = "346", !.responses = Append(@,
                                    handle_websocket_message(message_data, raises))])
                             /\ UNCHANGED <<active_connections, connection_info, result>>
    /\ UNCHANGED <<analyzer, sent, records>>

\* Lines 340 and 346, once the send_text inside send_personal_message has
\* returned or raised (manager.py lines 73-78); the loop awaits the next text.
Endpoint346(p) ==
    /\ frames[p].pc \in {"340", "346"}
    /\ LET f == frames[p]
       IN  \E delivered \in BOOLEAN :
              IF delivered
              THEN /\ send_text(f.websocket, f.responses[Len(f.responses)])
                   /\ UNCHANGED <<active_connections, connection_info>>
              ELSE /\ disconnect({f.websocket})
                   /\ UNCHANGED sent
    /\ Goto(p, "325")
    /\ UNCHANGED <<analyzer, result, records>>

(***************************************************************************)
(* One client at a time on a websocket, and the texts it sends.            *)
(***************************************************************************)
NextEndpoint ==
    \/ CallEndpoint(1, "ws1")
    \/ Endpoint319(1)
    \/ Endpoint325(1)
    \/ Endpoint346(1)

SpecEndpoint == Init /\ [][NextEndpoint]_vars

\* The error code the claim gives for a text, "" where it gives none.
StatedCode(text, response) ==
    LET message_data == loads(text)
    IN  IF message_data.type = "JSONDecodeError" THEN "JSON_PARSE_ERROR"
        ELSE IF ~IsDict(message_data) THEN ""
        ELSE IF "id" \notin DOMAIN message_data.value THEN "MISSING_ID"
        ELSE IF "action" \notin DOMAIN message_data.value THEN "MISSING_ACTION"
        ELSE IF message_data.value.action \notin Handlers THEN "UNKNOWN_ACTION"
        ELSE ""

\* The response answers the text as the claim says.
Answers(text, response) ==
    LET message_data == loads(text)
        code == StatedCode(text, response)
    IN  IF code # ""
        THEN response.status = "error" /\ response.payload.code = code
        ELSE IsDict(message_data) =>
                /\ response.id = message_data.value.id
                /\ response.action = message_data.value.action

\* One response for each text received, in order.
Answered(received, responses) ==
    /\ Len(responses) = Len(received)
    /\ \A i \in 1..Len(received) : Answers(received[i], responses[i])

\* C38 as stated: every text received is answered with exactly one response
\* on its connection, with the code or the id and action the claim names,
\* and the endpoint then awaits the next text: it leaves only when the
\* client has gone (or was never accepted), and then the websocket is no
\* longer tracked.
C38_EveryTextAnsweredAsStated ==
    /\ \A p \in Tasks :
          ("received" \in DOMAIN frames[p] /\ frames[p].pc = "325") =>
              Answered(frames[p].received, frames[p].responses)
    /\ result.call = "websocket_endpoint" =>
          /\ Answered(result.received, result.responses)
          /\ result.cause \in {"WebSocketDisconnect", "accept"}
          /\ result.websocket \in active_connections =>
                \E p \in Tasks : "received" \in DOMAIN frames[p] /\ frames[p].pc # "319"


(***************************************************************************)
(* process_attendance_event (src/server/api/routes/attendance.py, lines    *)
(* 565-710).  The handler is a coroutine; every repository call is an      *)
(* await at which another event's handler may run.  Time is in whole       *)
(* seconds within one day.  The session bookkeeping and the broadcast that  *)
(* follow add_record (lines 627-696) read and write no attendance record    *)
(* and are one step here.                                                  *)
(***************************************************************************)
Persons == {"p1", "p2"}

\* The persons repo.get_member finds.
Members == {"p1"}

\* settings.attendance_cooldown_seconds, in seconds; 0 where it is not set.
attendance_cooldown_seconds == 2

\* Line 578: settings.attendance_cooldown_seconds or 10.
cooldown_seconds ==
    IF attendance_cooldown_seconds # 0 THEN attendance_cooldown_seconds ELSE 10

\* Line 584: current_time.replace(hour=0, minute=0, second=0, microsecond=0).
StartOfDay(current_time) == 0

\* Lines 582-587: the records of the person between the two dates, `limit`
\* at most.
get_records(person_id, start_date, end_date, limit) ==
    LET found == SelectSeq(records, LAMBDA r : /\ r.person_id = person_id
                                               /\ start_date <= r.timestamp
                                               /\ r.timestamp <= end_date)
    IN  SubSeq(found, 1, IF Len(found) < limit THEN Len(found) ELSE limit)

\* Lines 590-596: a record of recent_records is younger than the cooldown.
CooldownActive(recent_records, current_time) ==
    \E i \in 1..Len(recent_records) :
        current_time - recent_records[i].timestamp < cooldown_seconds

\* Line 572: the handler is called and awaits get_member.
CallEvent(p, person_id) ==
    /\ frames[p].pc = "idle"
    /\ frames[p].done < MaxRequests
    /\ SetFrame(p, [pc |-> "572", done |-> frames[p].done,
                    call |-> "process_attendance_event", person_id |-> person_id])
    /\ UNCHANGED <<score_history, texture_history, timestamp_history, now, result, net>>

\* Lines 572-577, once get_member has returned: 404 for an unknown person,
\* else the await of get_settings.
Event572(p) ==
    /\ frames[p].pc = "572"
    /\ LET f == frames[p]
       IN  IF f.person_id \notin Members
           THEN Return(p, [call |-> "process_attendance_event",
                           person_id |-> f.person_id, status_code |-> 404])
           ELSE Goto(p, "577") /\ UNCHANGED result
    /\ UNCHANGED <<score_history, texture_history, timestamp_history, now, net>>

\* Lines 577-582, once get_settings has returned: the clock is read and
\* get_records awaited.
Event577(p) ==
    /\ frames[p].pc = "577"
    /\ SetFrame(p, [pc |-> "582", done |-> frames[p].done,
                    call |-> "process_attendance_event",
                    person_id |-> frames[p].person_id, current_time |-> now])
    /\ UNCHANGED <<score_history, texture_history, timestamp_history, now, result, net>>

\* Lines 582-625, once get_records has returned: processed = False under
\* the cooldown, else the record is built with the clock of line 610 and
\* add_record awaited.
Event582(p) ==
    /\ frames[p].pc = "582"
    /\ LET f == frames[p]
           recent_records == get_records(f.person_id, StartOfDay(f.current_time),
                                         f.current_time, 10)
       IN  IF CooldownActive(recent_records, f.current_time)
           THEN Return(p, [call |-> "process_attendance_event",
                           person_id |-> f.person_id, status_code |-> 200,
                           processed |-> FALSE, timestamp |-> f.current_time])
           ELSE /\ SetFrame(p, [pc |-> "625", done |-> f.done,
                                call |-> "process_attendance_event",
                                person_id |-> f.person_id,
                                record_data |-> [id |-> <<p, f.done>>,
                                                 person_id |-> f.person_id,
                                                 timestamp |-> now]])
                /\ UNCHANGED result
    /\ UNCHANGED <<score_history, texture_history, timestamp_history, now, net>>

\* Line 625, once add_record has stored the record; the session of lines
\* 627-677 is awaited.
Event625(p) ==
    /\ frames[p].pc = "625"
    /\ records' = Append(records, frames[p].record_data)
    /\ Goto(p, "631")
    /\ UNCHANGED <<score_history, texture_history, timestamp_history, now, result,
                   active_connections, connection_info, sent>>

\* Lines 631-704: the session is stored, the broadcast scheduled and
\* processed = True returned.
Event631(p) ==
    /\ frames[p].pc = "631"
    /\ LET f == frames[p]
       IN  Return(p, [call |-> "process_attendance_event",
                      person_id |-> f.person_id, status_code |-> 200,
                      processed |-> TRUE, timestamp |-> f.record_data.timestamp])
    /\ UNCHANGED <<score_history, texture_history, timestamp_history, now, net>>

\* A second passes.
Second ==
    /\ now < MaxTime
    /\ now' = now + 1
    /\ UNCHANGED <<score_history, texture_history, timestamp_history, result, frames, net>>

(***************************************************************************)
(* Two handlers serving attendance events, interleaving at their awaits.   *)
(***************************************************************************)
NextAttendance ==
    \/ \E p \in Tasks, person_id \in Persons : CallEvent(p, person_id)
    \/ \E p \in Tasks : Event572(p)
    \/ \E p \in Tasks : Event577(p)
    \/ \E p \in Tasks : Event582(p)
    \/ \E p \in Tasks : Event625(p)
    \/ \E p \in Tasks : Event631(p)
    \/ Second

SpecAttendance == Init /\ [][NextAttendance]_vars

\* C39 as stated: no record is added for a person who already has a record
\* less than cooldown_seconds old, also when two events for the person are
\* handled concurrently.
C39_CooldownEnforcedAsStated ==
    [][Len(records') > Len(records) =>
          LET r == records'[Len(records')]
          IN  \A i \in 1..Len(records) :
                 records[i].person_id = r.person_id =>
                     r.timestamp - records[i].timestamp >= cooldown_seconds]_vars

====
